---- MODULE Spec2Model ----
(***************************************************************************)
(* A model of the mini-React runtime of this repository: the hook store,   *)
(* the state and effect hooks, the reconciler (both the plain reconciler   *)
(* of packages/react/src/core/reconciler.ts and the reconciler with hook   *)
(* migration), the host tree, the render driver and setup.                 *)
(*                                                                         *)
(* One operator per function of the source.  The functions of the source   *)
(* mutate process-wide objects; here each takes the world `st` (a record   *)
(* of those objects) and returns the world after it.                       *)
(***************************************************************************)
EXTENDS Integers, Sequences, FiniteSets, TLC

VARIABLES
  variant,    \* which reconciler is linked: "plain" or "migrating"
  scn,        \* which application (set of component inputs) is running
  root,       \* context.root: [container, node, instance]
  hooks,      \* context.hooks: [state, cursor, visited, componentStack]
  effects,    \* context.effects: [queue]
  arrays,     \* the heap of hook arrays: array id -> sequence of slots
  dom,        \* the host tree: node id -> host node
  mq,         \* the microtask queue (enqueue)
  scheduled,  \* the flag of withEnqueue(render)
  draining,   \* TRUE between the microtasks of one drain of the queue
  setters,    \* the state setters the latest pass handed to the application
  log,        \* what the last step did (calls, reads, host mutations)
  names,      \* the objects of the last step: their names after it -> before it
  turn,       \* counts for the current synchronous turn and its drain
  applied     \* a function called on its own: its arguments and its results

appVars == <<variant, scn, root, hooks, effects, arrays, dom, mq, scheduled,
             draining, setters, log, names, turn>>

vars == <<appVars, applied>>

----------------------------------------------------------------------------
(* Bounds of the model *)

\* the longest list of children the application renders
MaxKids == 3
\* the largest number a leaf component's state holds
MaxVal == 1
\* the most calls (setter, setup) of the application in one synchronous turn
MaxTurnCalls == 2

----------------------------------------------------------------------------
(* Sequences and insertion-ordered maps (JavaScript Map) *)

SeqToSet(s) == {s[i] : i \in 1..Len(s)}

\* const name = value; body
Bind(value, body(_)) == body(value)

Min(S) == CHOOSE n \in S : \A m \in S : n <= m

\* the smallest positive id not in `used`
FreshId(used) == Min({n \in 1..(Cardinality(used) + 1) : n \notin used})

MapHas(m, k) == \E i \in 1..Len(m) : m[i].k = k

MapGet(m, k) == m[CHOOSE i \in 1..Len(m) : m[i].k = k].v

MapSet(m, k, v) ==
  IF MapHas(m, k)
  THEN [i \in 1..Len(m) |-> IF m[i].k = k THEN [k |-> k, v |-> v] ELSE m[i]]
  ELSE Append(m, [k |-> k, v |-> v])

MapDelete(m, k) == SelectSeq(m, LAMBDA e : e.k # k)

MapKeys(m) == [i \in 1..Len(m) |-> m[i].k]

MapValues(m) == {m[i].v : i \in 1..Len(m)}

----------------------------------------------------------------------------
(* JavaScript values.  Each kind of value is a record with its own field,   *)
(* so that values of different kinds compare unequal.                       *)

Undefined == [undef |-> TRUE]

IntV(n) == [int |-> n]

\* an array of child descriptions held in state: `ref` is the object's
\* identity (a fresh array never has the reference of the stored one)
KidsV(ks, ref) == [kids |-> ks, ref |-> ref]

IsInt(v) == "int" \in DOMAIN v

IsKids(v) == "kids" \in DOMAIN v

IsStr(v) == "str" \in DOMAIN v

StrV(s) == [str |-> s]

\* Object.is on the values above: numbers by value, arrays by reference
ObjectIs(a, b) ==
  IF IsKids(a) /\ IsKids(b) THEN a.ref = b.ref ELSE a = b

Falsy(v) == v = Undefined \/ v = IntV(0)

\* String(v)
String(v) ==
  IF IsInt(v) THEN ToString(v.int) ELSE IF IsStr(v) THEN v.str ELSE "undefined"

\* s.trim() === "" that holds of the empty string only
IsBlankEmptyOnly(s) == s = ""

\* s.trim() === "": the strings that hold only white space
IsBlank(s) == s \in {"", " ", "  ", "\n", "\t", " \n "}

----------------------------------------------------------------------------
(* Description nodes (VNode) *)

TEXT_ELEMENT == "TEXT_ELEMENT"

Fragment == "Fragment"

ComponentTypes == {"App", "X", "Y", "Pair", "Gate", "Z", "Thrower"}

\* typeof type === "function"
IsFunction(type) == type \in ComponentTypes

\* key: null
NoKey == "<null>"

VNull == [empty |-> "null"]

VFalse == [empty |-> "false"]

VTrue == [empty |-> "true"]

\* an array of children
ArrV(elements) == [arr |-> elements]

NoAttrs == <<>>

VNode(type, key, attrs, children) ==
  [type |-> type, key |-> key,
   props |-> [attrs |-> attrs, children |-> children, nodeValue |-> ""]]

\* isEmptyValue of ../utils: null, undefined and booleans render nothing
isEmptyValue(v) == v \in {VNull, Undefined, VFalse, VTrue}

\* node?.type, with "undefined" for an empty node
TypeOf(node) == IF isEmptyValue(node) THEN "undefined" ELSE node.type

\* node?.key
KeyOf(node) == IF isEmptyValue(node) THEN NoKey ELSE node.key

createTextElement(node) ==
  [type |-> TEXT_ELEMENT, key |-> NoKey,
   props |-> [attrs |-> NoAttrs, children |-> <<>>, nodeValue |-> String(node)]]

RECURSIVE normalizeNode(_)
normalizeNode(node) ==
  IF isEmptyValue(node) THEN VNull
  ELSE IF "arr" \in DOMAIN node
  THEN VNode(Fragment, NoKey, NoAttrs,
             SelectSeq([i \in 1..Len(node.arr) |-> normalizeNode(node.arr[i])],
                       LAMBDA n : n # VNull))
  ELSE IF IsStr(node)
  THEN IF IsBlank(node.str) THEN VNull ELSE createTextElement(node)
  ELSE IF IsInt(node) THEN createTextElement(node)
  ELSE node

RECURSIVE flatten(_)
RECURSIVE flatMapFlatten(_)
flatten(child) ==
  LET normalized == normalizeNode(child) IN
  IF normalized = VNull THEN <<>>
  ELSE IF normalized.type = Fragment
  THEN flatMapFlatten(normalized.props.children)
  ELSE <<normalized>>

flatMapFlatten(cs) ==
  IF cs = <<>> THEN <<>> ELSE flatten(Head(cs)) \o flatMapFlatten(Tail(cs))

createElement(type, key, attrs, rawChildren) ==
  VNode(type, key, attrs, flatMapFlatten(rawChildren))

\* how many of siblings[0..index-1] declare `key`
RECURSIVE duplicateCount(_, _, _)
duplicateCount(siblings, key, index) ==
  IF index = 0 THEN 0
  ELSE duplicateCount(siblings, key, index - 1)
       + (IF index <= Len(siblings) /\ KeyOf(siblings[index]) = key THEN 1 ELSE 0)

\* the siblings argument: given, or omitted
Siblings(list) == [list |-> list]

NoSiblings == [omitted |-> TRUE]

createChildPath(parentPath, key, index, nodeType, siblings) ==
  LET prefix == IF IsFunction(nodeType) THEN "c" ELSE "i"
      dup == IF siblings = NoSiblings THEN 0
             ELSE duplicateCount(siblings.list, key, index)
      identifier == IF dup > 0 THEN "k-" \o key \o "-" \o ToString(dup)
                    ELSE "k-" \o key
  IN IF key # NoKey
     THEN parentPath \o "." \o prefix \o identifier
     ELSE parentPath \o "." \o prefix \o ToString(index)

----------------------------------------------------------------------------
(* The world the functions of the source read and write *)

Log(st, e) == [st EXCEPT !.log = Append(@, e)]

\* an exception leaves the function that raised it and its callers
Throw(st, what) == [Log(st, [ev |-> "throw", what |-> what]) EXCEPT !.thrown = TRUE]

----------------------------------------------------------------------------
(* The host platform: elements and text nodes, by id *)

NoDom == 0

\* the two elements a tree can be mounted into
Containers == {1, 2}

HostNode(kind, tag, nodeValue) ==
  [kind |-> kind, tag |-> tag, nodeValue |-> nodeValue, parent |-> NoDom,
   kids |-> <<>>, className |-> "", style |-> <<>>, attrs |-> <<>>,
   props |-> <<>>, listeners |-> <<>>]

IndexOf(s, x) == CHOOSE i \in 1..Len(s) : s[i] = x

\* node.nextSibling
nextSibling(d, n) ==
  IF d[n].parent = NoDom THEN NoDom
  ELSE LET ks == d[d[n].parent].kids
           i == IndexOf(ks, n)
       IN IF i < Len(ks) THEN ks[i + 1] ELSE NoDom

\* node.lastChild
lastChild(d, p) == IF d[p].kids = <<>> THEN NoDom ELSE d[p].kids[Len(d[p].kids)]

Detach(d, n) ==
  IF d[n].parent = NoDom THEN d
  ELSE [d EXCEPT ![d[n].parent].kids = SelectSeq(@, LAMBDA x : x # n),
                 ![n].parent = NoDom]

\* document.createElement / document.createTextNode: the world and the new id
createNode(st, node) ==
  LET id == FreshId(st.usedDom) IN
  [st |-> [st EXCEPT !.dom = [n \in DOMAIN st.dom \cup {id} |->
                                IF n = id THEN node ELSE st.dom[n]],
                     !.usedDom = @ \cup {id}],
   id |-> id]

\* parent.appendChild(n)
appendChild(st, parent, n) ==
  LET d1 == Detach(st.dom, n)
      d2 == [d1 EXCEPT ![parent].kids = Append(@, n), ![n].parent = parent]
  IN Log([st EXCEPT !.dom = d2],
         [ev |-> "dom", op |-> "appendChild", node |-> n, parent |-> parent])

\* parent.insertBefore(n, anchor): NotFoundError unless anchor is a child of parent
insertBefore(st, parent, n, anchor) ==
  IF st.dom[anchor].parent # parent THEN Throw(st, "NotFoundError")
  ELSE IF n = anchor
  THEN Log(st, [ev |-> "dom", op |-> "insertBefore", node |-> n, parent |-> parent])
  ELSE LET d1 == Detach(st.dom, n)
           ks == d1[parent].kids
           i == IndexOf(ks, anchor)
           d2 == [d1 EXCEPT ![parent].kids =
                               SubSeq(ks, 1, i - 1) \o <<n>> \o SubSeq(ks, i, Len(ks)),
                            ![n].parent = parent]
       IN Log([st EXCEPT !.dom = d2],
              [ev |-> "dom", op |-> "insertBefore", node |-> n, parent |-> parent])

\* n.parentNode.removeChild(n)
removeChild(st, n) ==
  Log([st EXCEPT !.dom = Detach(st.dom, n)],
      [ev |-> "dom", op |-> "removeChild", node |-> n, parent |-> st.dom[n].parent])

\* container.textContent = ""
clearTextContent(st, c) ==
  LET ks == st.dom[c].kids IN
  Log([st EXCEPT !.dom = [n \in DOMAIN st.dom |->
                            IF n = c THEN [st.dom[n] EXCEPT !.kids = <<>>]
                            ELSE IF n \in SeqToSet(ks)
                            THEN [st.dom[n] EXCEPT !.parent = NoDom]
                            ELSE st.dom[n]]],
      [ev |-> "dom", op |-> "textContent", node |-> c, parent |-> NoDom])

----------------------------------------------------------------------------
(* Props of a host node.  A prop value is a string [str], a handler [fn]    *)
(* (a function, by identity) or a style object [style, ref].                *)

EventKeys == {"onClick", "onInput"}

\* key.startsWith("on")
startsWithOn(key) == key \in EventKeys

\* key.toLowerCase().substring(2)
eventTypeOf(key) == IF key = "onClick" THEN "click" ELSE "input"

\* key in dom: the intrinsic properties of an element
InDom(key) == key \in {"id", "title"}

\* a listener that is undefined is not registered; one that is registered already
\* is not registered again
addEventListener(n, type, fn) ==
  IF fn = Undefined \/ \E i \in 1..Len(n.listeners) : n.listeners[i] = [type |-> type, fn |-> fn]
  THEN n
  ELSE [n EXCEPT !.listeners = Append(@, [type |-> type, fn |-> fn])]

removeEventListener(n, type, fn) ==
  [n EXCEPT !.listeners = SelectSeq(@, LAMBDA l : l # [type |-> type, fn |-> fn])]

RECURSIVE objectAssign(_, _)
objectAssign(target, source) ==
  IF source = <<>> THEN target
  ELSE objectAssign(MapSet(target, Head(source).k, Head(source).v), Tail(source))

WriteProp(st, id, key, n) ==
  Log([st EXCEPT !.dom[id] = n],
      [ev |-> "dom", op |-> "prop", node |-> id, parent |-> NoDom, key |-> key])

setDomProp(st, id, key, value) ==
  LET n == st.dom[id] IN
  IF startsWithOn(key)
  THEN WriteProp(st, id, key, addEventListener(n, eventTypeOf(key), value))
  ELSE IF key = "className"
  THEN WriteProp(st, id, key, [n EXCEPT !.className = IF "str" \in DOMAIN value THEN value.str ELSE ""])
  ELSE IF key = "style"
  THEN IF "style" \in DOMAIN value
       THEN WriteProp(st, id, key, [n EXCEPT !.style = objectAssign(@, value.style)])
       ELSE st
  ELSE IF InDom(key)
  THEN WriteProp(st, id, key, [n EXCEPT !.props = MapSet(@, key, value)])
  ELSE WriteProp(st, id, key, [n EXCEPT !.attrs = MapSet(@, key, value)])

\* props is the map of the node's props without "children"
RECURSIVE setDomProps(_, _, _)
setDomProps(st, id, props) ==
  IF props = <<>> THEN st
  ELSE setDomProps(setDomProp(st, id, Head(props).k, Head(props).v), id, Tail(props))

RECURSIVE removeStaleProps(_, _, _, _)
removeStaleProps(st, id, prevProps, nextProps) ==
  IF prevProps = <<>> THEN st
  ELSE LET key == Head(prevProps).k
           n == st.dom[id]
           st1 ==
             IF MapHas(nextProps, key) THEN st
             ELSE IF startsWithOn(key)
             THEN WriteProp(st, id, key, removeEventListener(n, eventTypeOf(key), Head(prevProps).v))
             ELSE IF key = "className"
             THEN WriteProp(st, id, key, [n EXCEPT !.className = ""])
             ELSE IF key = "style"
             THEN WriteProp(st, id, key, [n EXCEPT !.style = <<>>])
             ELSE IF InDom(key)
             THEN WriteProp(st, id, key, [n EXCEPT !.props = MapSet(@, key, [str |-> ""])])
             ELSE WriteProp(st, id, key, [n EXCEPT !.attrs = MapDelete(@, key)])
       IN removeStaleProps(st1, id, Tail(prevProps), nextProps)

\* the changed props are set without removing the handler of the props before
RECURSIVE applyChangedPropsOnly(_, _, _, _)
applyChangedPropsOnly(st, id, prevProps, nextProps) ==
  IF nextProps = <<>> THEN st
  ELSE LET key == Head(nextProps).k
           value == Head(nextProps).v
           prev == IF MapHas(prevProps, key) THEN MapGet(prevProps, key) ELSE Undefined
       IN applyChangedPropsOnly(IF prev = value THEN st ELSE setDomProp(st, id, key, value),
                                id, prevProps, Tail(nextProps))

RECURSIVE applyChangedProps(_, _, _, _)
applyChangedProps(st, id, prevProps, nextProps) ==
  IF nextProps = <<>> THEN st
  ELSE LET key == Head(nextProps).k
           value == Head(nextProps).v
           prev == IF MapHas(prevProps, key) THEN MapGet(prevProps, key) ELSE Undefined
           st1 ==
             IF prev = value THEN st
             ELSE LET st0 ==
                        IF startsWithOn(key) /\ ~Falsy(prev)
                        THEN WriteProp(st, id, key,
                               removeEventListener(st.dom[id], eventTypeOf(key), prev))
                        ELSE st
                  IN setDomProp(st0, id, key, value)
       IN applyChangedProps(st1, id, prevProps, Tail(nextProps))

updateDomProps(st, id, prevProps, nextProps) ==
  applyChangedProps(removeStaleProps(st, id, prevProps, nextProps), id, prevProps, nextProps)

----------------------------------------------------------------------------
(* context.hooks and the hooks *)

NodeCOMPONENT == "component"

NodeFRAGMENT == "fragment"

NodeHOST == "host"

NodeTEXT == "text"

\* no instance (null)
NoInst == [kind |-> "null"]

\* no cleanup function (null)
NoCleanup == 0

\* deps omitted by the caller (undefined), and the stored null
DepsUndefined == [nodeps |-> TRUE]

DepsNull == [nulldeps |-> TRUE]

DepsOf(items) == [items |-> items]

\* typeof v === "object" && v !== null: an array [items] or a plain object
\* [fields]; one that is compared by identity carries its identity in `ref`
IsObject(v) == "items" \in DOMAIN v \/ "fields" \in DOMAIN v

IsEffectHook(h) == "kind" \in DOMAIN h

\* context.hooks.currentPath
currentPath(st) == st.stack[Len(st.stack)]

\* context.hooks.currentCursor
currentCursor(st) ==
  IF MapHas(st.cursor, currentPath(st)) THEN MapGet(st.cursor, currentPath(st)) ELSE 0

\* context.hooks.currentHooks: the array of the current path, created and
\* stored when the path has none; the world and the array's id
currentHooks(st) ==
  IF MapHas(st.state, currentPath(st))
  THEN [st |-> st, arr |-> MapGet(st.state, currentPath(st))]
  ELSE LET id == FreshId(st.usedArr) IN
       [st |-> [st EXCEPT !.arrays = [a \in DOMAIN st.arrays \cup {id} |->
                                        IF a = id THEN <<>> ELSE st.arrays[a]],
                          !.usedArr = @ \cup {id},
                          !.state = MapSet(@, currentPath(st), id)],
        arr |-> id]

\* hooks[i] of a JavaScript array (0-based; undefined beyond the end)
ArrGet(arr, i) == IF i < Len(arr) THEN arr[i + 1] ELSE Undefined

\* hooks[i] = v (holes before i read as undefined)
ArrSet(arr, i, v) ==
  IF i < Len(arr) THEN [arr EXCEPT ![i + 1] = v]
  ELSE arr \o [j \in 1..(i - Len(arr)) |-> Undefined] \o <<v>>

\* Object.keys(v): the indexes of an array as strings, the keys of an object
ObjectKeys(v) ==
  IF "items" \in DOMAIN v THEN {ToString(i - 1) : i \in 1..Len(v.items)}
  ELSE {v.fields[i].k : i \in 1..Len(v.fields)}

hasOwnProperty(obj, key) == key \in ObjectKeys(obj)

\* v[key] of an own key
PropertyOf(v, key) ==
  IF "items" \in DOMAIN v
  THEN v.items[CHOOSE i \in 1..Len(v.items) : ToString(i - 1) = key]
  ELSE MapGet(v.fields, key)

\* the comparison without the check of the number of keys
shallowEqualsAnyLength(a, b) ==
  IF ObjectIs(a, b) THEN TRUE
  ELSE IF ~IsObject(a) \/ ~IsObject(b) THEN FALSE
  ELSE \A key \in ObjectKeys(a) :
         hasOwnProperty(b, key) /\ ObjectIs(PropertyOf(a, key), PropertyOf(b, key))

shallowEquals(a, b) ==
  IF ObjectIs(a, b) THEN TRUE
  ELSE IF ~IsObject(a) \/ ~IsObject(b) THEN FALSE
  ELSE /\ Cardinality(ObjectKeys(a)) = Cardinality(ObjectKeys(b))
       /\ \A key \in ObjectKeys(a) :
            hasOwnProperty(b, key) /\ ObjectIs(PropertyOf(a, key), PropertyOf(b, key))

RECURSIVE deepEquals(_, _)
deepEquals(a, b) ==
  IF ObjectIs(a, b) THEN TRUE
  ELSE IF ~IsObject(a) \/ ~IsObject(b) THEN FALSE
  ELSE /\ Cardinality(ObjectKeys(a)) = Cardinality(ObjectKeys(b))
       /\ \A key \in ObjectKeys(a) :
            hasOwnProperty(b, key) /\ deepEquals(PropertyOf(a, key), PropertyOf(b, key))

\* initialValue is [lit |-> v] (a value) or [fn |-> v] (a function returning v)
useState(st, initialValue) ==
  LET path == currentPath(st)
      cursor == currentCursor(st)
  IN Bind(currentHooks(st), LAMBDA h :
     Bind(IF ArrGet(h.st.arrays[h.arr], cursor) # Undefined THEN h.st
          ELSE IF "fn" \in DOMAIN initialValue
          THEN Log([h.st EXCEPT !.arrays[h.arr] = ArrSet(@, cursor, initialValue.fn)],
                   [ev |-> "init", path |-> path, cursor |-> cursor, arr |-> h.arr])
          ELSE [h.st EXCEPT !.arrays[h.arr] = ArrSet(@, cursor, initialValue.lit)],
          LAMBDA st1 :
     Bind(ArrGet(st1.arrays[h.arr], cursor), LAMBDA state :
       [st |-> Log([st1 EXCEPT !.cursor = MapSet(@, path, cursor + 1)],
                   [ev |-> "useState", path |-> path, cursor |-> cursor,
                    arr |-> h.arr, state |-> state]),
        state |-> state,
        setState |-> [arr |-> h.arr, cursor |-> cursor]])))

\* whether the effect is queued in this pass
shouldRunEffect(prevHook, deps) ==
  IF Falsy(prevHook) THEN TRUE
  ELSE IF deps = DepsUndefined THEN TRUE
  ELSE IF IsEffectHook(prevHook) /\ prevHook.deps = DepsNull THEN TRUE
  ELSE IF ~IsEffectHook(prevHook) THEN TRUE
  ELSE ~shallowEquals(prevHook.deps, deps)

useEffect(st, effect, deps) ==
  LET path == currentPath(st)
      cursor == currentCursor(st)
  IN Bind(currentHooks(st), LAMBDA h :
     Bind(ArrGet(h.st.arrays[h.arr], cursor), LAMBDA prevHook :
     Bind(shouldRunEffect(prevHook, deps), LAMBDA shouldRun :
     Bind([kind |-> "effect",
           deps |-> IF deps = DepsUndefined THEN DepsNull ELSE deps,
           cleanup |-> IF IsEffectHook(prevHook) THEN prevHook.cleanup ELSE NoCleanup,
           effect |-> effect], LAMBDA newHook :
       Log([h.st EXCEPT !.arrays[h.arr] = ArrSet(@, cursor, newHook),
                        !.queue = IF shouldRun
                                  THEN Append(@, [path |-> path, cursor |-> cursor])
                                  ELSE @,
                        !.cursor = MapSet(@, path, cursor + 1)],
           [ev |-> "useEffect", path |-> path, cursor |-> cursor, arr |-> h.arr,
            deps |-> deps, shouldRun |-> shouldRun])))))

\* enqueue(callback): queueMicrotask
enqueue(st, task) == [st EXCEPT !.mq = Append(@, task)]

\* enqueueRender = withEnqueue(render): one render per tick
enqueueRender(st) ==
  IF st.scheduled THEN st
  ELSE enqueue([st EXCEPT !.scheduled = TRUE], [task |-> "render"])

\* the setter useState returns: s is the closure's [arr, cursor]; nextValue is
\* [val |-> v] or [updater |-> f]
applyUpdater(f, prev) ==
  IF f = "inc" /\ IsInt(prev) THEN IntV((prev.int + 1) % (MaxVal + 1)) ELSE prev

\* the setter stores and schedules without comparing
setStateUnchecked(st, s, nextValue) ==
  LET stored == ArrGet(st.arrays[s.arr], s.cursor)
      newValue == IF "updater" \in DOMAIN nextValue
                  THEN applyUpdater(nextValue.updater, stored) ELSE nextValue.val
  IN enqueueRender([st EXCEPT !.arrays[s.arr] = ArrSet(@, s.cursor, newValue)])

\* the setter queues a render of its own for every changed value
setStateUncoalesced(st, s, nextValue) ==
  LET stored == ArrGet(st.arrays[s.arr], s.cursor)
      newValue == IF "updater" \in DOMAIN nextValue
                  THEN applyUpdater(nextValue.updater, stored) ELSE nextValue.val
  IN IF ~ObjectIs(stored, newValue)
     THEN enqueue([st EXCEPT !.arrays[s.arr] = ArrSet(@, s.cursor, newValue),
                             !.scheduled = TRUE],
                  [task |-> "render"])
     ELSE st

setState(st, s, nextValue) ==
  LET stored == ArrGet(st.arrays[s.arr], s.cursor)
      newValue == IF "updater" \in DOMAIN nextValue
                  THEN applyUpdater(nextValue.updater, stored) ELSE nextValue.val
  IN IF ~ObjectIs(stored, newValue)
     THEN enqueueRender([st EXCEPT !.arrays[s.arr] = ArrSet(@, s.cursor, newValue)])
     ELSE st

\* a setter call the application makes from inside an effect body or a cleanup
setStateFrom(st, from, s, nextValue) ==
  setState(Log(st, [ev |-> "setState", s |-> s, nextValue |-> nextValue, from |-> from]),
           s, nextValue)

\* hook.cleanup(): the cleanups of Z call Z's setter, which writes the list the
\* hook is in
callCleanup(st, arr, hook) ==
  Bind(Log(st, [ev |-> "cleanup", id |-> hook.cleanup]), LAMBDA st1 :
    IF hook.effect.by = "Z"
    THEN setStateFrom(st1, "cleanup", [arr |-> arr, cursor |-> 0], [val |-> IntV(MaxVal)])
    ELSE st1)

\* for (const hook of hooks) if (hook && hook.kind === EFFECT && hook.cleanup) hook.cleanup()
RECURSIVE runCleanups(_, _, _)
runCleanups(st, arr, hs) ==
  IF hs = <<>> THEN st
  ELSE LET hook == Head(hs) IN
       runCleanups(IF IsEffectHook(hook) /\ hook.cleanup # NoCleanup
                   THEN callCleanup(st, arr, hook) ELSE st,
                   arr, Tail(hs))

RECURSIVE sweepPaths(_, _)
sweepPaths(st, allPaths) ==
  IF allPaths = <<>> THEN st
  ELSE LET path == Head(allPaths) IN
       IF path \in st.visited \/ ~MapHas(st.state, path)
       THEN sweepPaths(st, Tail(allPaths))
       ELSE LET st1 == runCleanups(st, MapGet(st.state, path),
                                    st.arrays[MapGet(st.state, path)]) IN
            sweepPaths([st1 EXCEPT !.state = MapDelete(@, path),
                                   !.cursor = MapDelete(@, path)],
                       Tail(allPaths))

\* the sweep deletes the records of the paths not visited and runs no cleanup
cleanupUnusedHooksSilently(st) ==
  [st EXCEPT !.state = SelectSeq(@, LAMBDA e : e.k \in st.visited),
             !.cursor = SelectSeq(@, LAMBDA e : e.k \in st.visited),
             !.visited = {}]

cleanupUnusedHooks(st) ==
  [sweepPaths(st, MapKeys(st.state)) EXCEPT !.visited = {}]

----------------------------------------------------------------------------
(* The application: the component functions the runtime is given.           *)
(*   App   holds the list of its children in state and renders them under   *)
(*         a div or a fragment (props.wrap)                                 *)
(*   X     a counter with an effect that depends on the counter             *)
(*   Y     a counter with an effect without deps                            *)
(*   Z     a counter with an effect that depends on the counter; the body   *)
(*         and its cleanup both set the counter to MaxVal                   *)
(*   Thrower  a counter that throws while rendering when the counter is     *)
(*         MaxVal                                                           *)
(*   Pair  a fragment of two text nodes, no hooks                           *)
(*   Gate  renders an X while its state is "show", a Y for "swap", an X     *)
(*         with a key for "keyed", and returns null, undefined or false     *)
(*         when its state names that value                                  *)

\* a child description of App: createElement(type, {key})
KidNode(kid) == createElement(kid.type, kid.key, NoAttrs, <<>>)

\* the application keeps the setter the hook returned
Keep(st, setter, type, path) ==
  [st EXCEPT !.kept = @ \cup {[arr |-> setter.arr, cursor |-> setter.cursor,
                                  type |-> type, path |-> path]}]

App(st, props) ==
  Bind(useState(st, [lit |-> KidsV(<<>>, 0)]), LAMBDA u :
    [st |-> Keep(u.st, u.setState, "App", currentPath(st)),
     node |-> createElement(MapGet(props.attrs, "wrap").str, NoKey, NoAttrs,
                            IF IsKids(u.state)
                            THEN [i \in 1..Len(u.state.kids) |-> KidNode(u.state.kids[i])]
                            ELSE <<>>)])

X(st, props) ==
  Bind(useState(st, [fn |-> IntV(0)]), LAMBDA u :
    [st |-> Keep(useEffect(u.st, [by |-> "X", state |-> u.state, returnsCleanup |-> TRUE],
                           DepsOf(<<u.state>>)),
                 u.setState, "X", currentPath(st)),
     node |-> createElement("span", NoKey, NoAttrs, <<u.state>>)])

Y(st, props) ==
  Bind(useState(st, [fn |-> IntV(0)]), LAMBDA u :
    [st |-> Keep(useEffect(u.st, [by |-> "Y", state |-> u.state,
                                  returnsCleanup |-> (u.state # IntV(0))],
                           DepsUndefined),
                 u.setState, "Y", currentPath(st)),
     node |-> createElement("b", NoKey, NoAttrs, <<u.state>>)])

Pair(st, props) ==
  [st |-> st, node |-> createElement(Fragment, NoKey, NoAttrs, <<StrV("l"), StrV("r")>>)]

Gate(st, props) ==
  Bind(useState(st, [fn |-> StrV("show")]), LAMBDA u :
    [st |-> Keep(u.st, u.setState, "Gate", currentPath(st)),
     node |-> IF u.state = StrV("null") THEN VNull
              ELSE IF u.state = StrV("undefined") THEN Undefined
              ELSE IF u.state = StrV("false") THEN VFalse
              ELSE IF u.state = StrV("swap") THEN createElement("Y", NoKey, NoAttrs, <<>>)
              ELSE IF u.state = StrV("keyed") THEN createElement("X", "k", NoAttrs, <<>>)
              ELSE createElement("X", NoKey, NoAttrs, <<>>)])

\* Z sets its counter to MaxVal from its effect body and from the cleanup the
\* body returns
Z(st, props) ==
  Bind(useState(st, [fn |-> IntV(0)]), LAMBDA u :
    [st |-> Keep(useEffect(u.st, [by |-> "Z", state |-> u.state, returnsCleanup |-> TRUE],
                           DepsOf(<<u.state>>)),
                 u.setState, "Z", currentPath(st)),
     node |-> createElement("i", NoKey, NoAttrs, <<u.state>>)])

\* Thrower throws when its counter is MaxVal
Thrower(st, props) ==
  Bind(useState(st, [fn |-> IntV(0)]), LAMBDA u :
    IF u.state = IntV(MaxVal)
    THEN [st |-> Throw(Keep(u.st, u.setState, "Thrower", currentPath(st)), "Thrower"), node |-> VNull]
    ELSE [st |-> Keep(useEffect(u.st, [by |-> "Thrower", state |-> u.state, returnsCleanup |-> TRUE],
                                DepsOf(<<u.state>>)),
                      u.setState, "Thrower", currentPath(st)),
          node |-> createElement("u", NoKey, NoAttrs, <<u.state>>)])

\* node.type(node.props)
callComponent(st, node) ==
  IF node.type = "App"
  THEN App(Log(st, [ev |-> "call", type |-> node.type, path |-> currentPath(st)]), node.props)
  ELSE IF node.type = "X"
  THEN X(Log(st, [ev |-> "call", type |-> node.type, path |-> currentPath(st)]), node.props)
  ELSE IF node.type = "Y"
  THEN Y(Log(st, [ev |-> "call", type |-> node.type, path |-> currentPath(st)]), node.props)
  ELSE IF node.type = "Thrower"
  THEN Thrower(Log(st, [ev |-> "call", type |-> node.type, path |-> currentPath(st)]), node.props)
  ELSE IF node.type = "Z"
  THEN Z(Log(st, [ev |-> "call", type |-> node.type, path |-> currentPath(st)]), node.props)
  ELSE IF node.type = "Gate"
  THEN Gate(Log(st, [ev |-> "call", type |-> node.type, path |-> currentPath(st)]), node.props)
  ELSE Pair(Log(st, [ev |-> "call", type |-> node.type, path |-> currentPath(st)]), node.props)

\* hook.effect(): the body runs and returns its cleanup, a new function, or nothing
\* the body of Z's effect calls Z's setter, which writes the list the hook is in
callEffect(st, arr, path, cursor, effect) ==
  LET id == IF effect.returnsCleanup THEN FreshId(st.usedCl) ELSE NoCleanup IN
  Bind(Log([st EXCEPT !.usedCl = @ \cup {id}],
           [ev |-> "effect", path |-> path, cursor |-> cursor,
            effect |-> effect, cleanup |-> id]), LAMBDA st1 :
    [st |-> IF effect.by = "Z"
            THEN setStateFrom(st1, "effect", [arr |-> arr, cursor |-> 0],
                              [val |-> IntV(MaxVal)])
            ELSE st1,
     cleanup |-> id])

----------------------------------------------------------------------------
(* dom.ts: the host nodes of an instance *)

RECURSIVE getDomNodes(_)
RECURSIVE getDomNodesOfChildren(_)
getDomNodes(instance) ==
  IF instance = NoInst THEN <<>>
  ELSE IF instance.dom # NoDom THEN <<instance.dom>>
  ELSE getDomNodesOfChildren(instance.children)

getDomNodesOfChildren(children) ==
  IF children = <<>> THEN <<>>
  ELSE getDomNodes(Head(children)) \o getDomNodesOfChildren(Tail(children))

RECURSIVE getFirstDom(_)
RECURSIVE getFirstDomFromChildren(_)
getFirstDom(instance) ==
  IF instance = NoInst THEN NoDom
  ELSE IF instance.dom # NoDom THEN instance.dom
  ELSE getFirstDomFromChildren(instance.children)

getFirstDomFromChildren(children) ==
  IF children = <<>> THEN NoDom
  ELSE LET d == getFirstDom(Head(children)) IN
       IF d # NoDom THEN d ELSE getFirstDomFromChildren(Tail(children))

RECURSIVE insertInstance(_, _, _, _)
RECURSIVE insertInstances(_, _, _, _)
insertInstance(st, parentDom, instance, anchor) ==
  IF instance = NoInst \/ st.thrown THEN st
  ELSE IF instance.kind \in {NodeFRAGMENT, NodeCOMPONENT}
  THEN insertInstances(st, parentDom, instance.children, anchor)
  ELSE IF instance.dom = NoDom THEN st
  ELSE IF anchor # NoDom THEN insertBefore(st, parentDom, instance.dom, anchor)
  ELSE appendChild(st, parentDom, instance.dom)

insertInstances(st, parentDom, children, anchor) ==
  IF children = <<>> \/ st.thrown THEN st
  ELSE insertInstances(insertInstance(st, parentDom, Head(children), anchor),
                       parentDom, Tail(children), anchor)

RECURSIVE removeInstance(_, _, _)
RECURSIVE removeInstances(_, _, _)
removeInstance(st, parentDom, instance) ==
  IF instance = NoInst THEN st
  ELSE IF instance.kind \in {NodeFRAGMENT, NodeCOMPONENT}
  THEN removeInstances(st, parentDom, instance.children)
  ELSE IF instance.dom # NoDom /\ st.dom[instance.dom].parent # NoDom
  THEN removeChild(st, instance.dom)
  ELSE st

removeInstances(st, parentDom, children) ==
  IF children = <<>> THEN st
  ELSE removeInstances(removeInstance(st, parentDom, Head(children)), parentDom, Tail(children))

----------------------------------------------------------------------------
(* reconciler.ts *)

\* children.filter((child) => !isEmptyValue(child))
filterEmpty(children) == SelectSeq(children, LAMBDA c : ~isEmptyValue(c))

Max(S) == CHOOSE n \in S : \A m \in S : m <= n

Pop(stack) == SubSeq(stack, 1, Len(stack) - 1)

\* the hook records of an unmounted component are dropped; the reconciler with
\* hook migration keeps them when the path was visited in this pass
dropHooks(st, path) ==
  IF st.variant = "migrating" /\ path \in st.visited THEN st
  ELSE [st EXCEPT !.state = MapDelete(@, path), !.cursor = MapDelete(@, path)]

RECURSIVE cleanupInstance(_, _)
RECURSIVE cleanupInstances(_, _)
cleanupInstance(st, instance) ==
  IF instance = NoInst THEN st
  ELSE Bind(IF instance.kind \in {NodeCOMPONENT, NodeFRAGMENT}
            THEN cleanupInstances(st, instance.children) ELSE st, LAMBDA st1 :
       Bind(IF instance.kind = NodeCOMPONENT /\ MapHas(st1.state, instance.path)
            THEN dropHooks(runCleanups(st1, MapGet(st1.state, instance.path),
                                       st1.arrays[MapGet(st1.state, instance.path)]),
                           instance.path)
            ELSE st1, LAMBDA st2 :
         IF instance.kind = NodeHOST THEN cleanupInstances(st2, instance.children) ELSE st2))

cleanupInstances(st, children) ==
  IF children = <<>> THEN st
  ELSE cleanupInstances(cleanupInstance(st, Head(children)), Tail(children))

\* oldChildrenByKey.get(key): the index of the last old child declaring the key, or 0
oldChildByKey(oldChildren, key) ==
  LET S == {i \in 1..Len(oldChildren) :
              oldChildren[i] # NoInst /\ oldChildren[i].key # NoKey /\ oldChildren[i].key = key}
  IN IF S = {} THEN 0 ELSE Max(S)

\* oldChildrenByTypeAndIndex.get(type): the indexes of the unkeyed old children of a type
oldChildrenByType(oldChildren, type) ==
  SelectSeq([i \in 1..Len(oldChildren) |-> i],
            LAMBDA i : oldChildren[i] # NoInst /\ oldChildren[i].key = NoKey
                       /\ oldChildren[i].node.type = type)

\* a matching that never finds an old child of the type
firstUnusedNone(sameType, j, used) == -1

\* the first j >= start with sameType[j] not used, or -1
RECURSIVE firstUnused(_, _, _)
firstUnused(sameType, j, used) ==
  IF j >= Len(sameType) THEN -1
  ELSE IF sameType[j + 1] \notin used THEN j
  ELSE firstUnused(sameType, j + 1, used)

\* phase 1 of the reconciler with hook migration: match every new child and
\* resolve its path (i counts from 0; old children are named by their index)
RECURSIVE matchByType(_, _, _, _, _, _, _)
matchByType(oldChildren, newChildren, path, i, used, counters, queue) ==
  IF i >= Len(newChildren) THEN [used |-> used, queue |-> queue]
  ELSE LET newChild == newChildren[i + 1]
           keyed == newChild.key # NoKey
           sameType == oldChildrenByType(oldChildren, newChild.type)
           start == IF MapHas(counters, newChild.type)
                    THEN MapGet(counters, newChild.type) ELSE 0
           j == IF keyed THEN -1 ELSE firstUnused(sameType, start, used)
           old == IF keyed THEN oldChildByKey(oldChildren, newChild.key)
                  ELSE IF j >= 0 THEN sameType[j + 1] ELSE 0
           childPath == IF keyed /\ old # 0 THEN oldChildren[old].path
                        ELSE createChildPath(path, newChild.key, i, newChild.type,
                                             Siblings(newChildren))
       IN matchByType(oldChildren, newChildren, path, i + 1,
                      IF old # 0 THEN used \cup {old} ELSE used,
                      IF j >= 0 THEN MapSet(counters, newChild.type, j + 1) ELSE counters,
                      Append(queue, [old |-> old, newChild |-> newChild,
                                     childPath |-> childPath]))

\* the while loop of the plain reconciler: the next unkeyed old child of the type
RECURSIVE scanNonKeyed(_, _, _, _)
scanNonKeyed(oldChildren, index, used, type) ==
  IF index >= Len(oldChildren) THEN [old |-> 0, index |-> index]
  ELSE LET candidate == oldChildren[index + 1] IN
       IF candidate # NoInst /\ candidate.key = NoKey /\ (index + 1) \notin used
          /\ candidate.node.type = type
       THEN [old |-> index + 1, index |-> index + 1]
       ELSE scanNonKeyed(oldChildren, index + 1, used, type)

\* the matching of the plain reconciler
RECURSIVE matchByIndex(_, _, _, _, _, _, _)
matchByIndex(oldChildren, newChildren, path, i, used, oldChildIndexForNonKeyed, queue) ==
  IF i >= Len(newChildren) THEN [used |-> used, queue |-> queue]
  ELSE LET newChild == newChildren[i + 1]
           keyed == newChild.key # NoKey
           scan == scanNonKeyed(oldChildren, oldChildIndexForNonKeyed, used, newChild.type)
           old == IF keyed THEN oldChildByKey(oldChildren, newChild.key) ELSE scan.old
           childPath == IF old # 0 THEN oldChildren[old].path
                        ELSE createChildPath(path, newChild.key, i, newChild.type,
                                             Siblings(newChildren))
       IN matchByIndex(oldChildren, newChildren, path, i + 1,
                       IF old # 0 THEN used \cup {old} ELSE used,
                       IF keyed THEN oldChildIndexForNonKeyed ELSE scan.index,
                       Append(queue, [old |-> old, newChild |-> newChild,
                                      childPath |-> childPath]))

\* phase 2 of the reconciler with hook migration
RECURSIVE migrateHooks(_, _, _)
migrateHooks(st, oldChildren, queue) ==
  IF queue = <<>> THEN st
  ELSE LET q == Head(queue)
           oldChild == IF q.old = 0 THEN NoInst ELSE oldChildren[q.old]
           st1 ==
             IF oldChild # NoInst /\ oldChild.kind = NodeCOMPONENT /\ oldChild.path # q.childPath
             THEN LET moved ==
                        IF MapHas(st.state, oldChild.path)
                        THEN [st EXCEPT !.state =
                                MapDelete(MapSet(@, q.childPath, MapGet(st.state, oldChild.path)),
                                          oldChild.path)]
                        ELSE st
                  IN [moved EXCEPT !.cursor = MapDelete(@, oldChild.path)]
             ELSE st
       IN migrateHooks(st1, oldChildren, Tail(queue))

\* remove the old children that no new child was matched with
RECURSIVE removeUnused(_, _, _, _, _)
removeUnused(st, target, oldChildren, used, i) ==
  IF i > Len(oldChildren) \/ st.thrown THEN st
  ELSE removeUnused(IF oldChildren[i] # NoInst /\ i \notin used
                    THEN removeInstance(cleanupInstance(st, oldChildren[i]), target, oldChildren[i])
                    ELSE st,
                    target, oldChildren, used, i + 1)

\* move the host nodes of one child before the anchor, or to the end
RECURSIVE placeDoms(_, _, _, _)
placeDoms(st, target, childDoms, anchor) ==
  IF childDoms = <<>> \/ st.thrown THEN st
  ELSE LET d == Head(childDoms)
           st1 == IF anchor # NoDom
                  THEN IF nextSibling(st.dom, d) # anchor
                       THEN insertBefore(st, target, d, anchor) ELSE st
                  ELSE IF st.dom[d].parent # target \/ lastChild(st.dom, target) # d
                       THEN appendChild(st, target, d) ELSE st
       IN placeDoms(st1, target, Tail(childDoms), anchor)

\* a reconciler that leaves the host nodes where they are
repositionNever(st, target, children, i) == st

\* the reverse walk over the new children (i counts down from their number)
RECURSIVE reposition(_, _, _, _)
reposition(st, target, children, i) ==
  IF i = 0 \/ st.thrown THEN st
  ELSE LET child == children[i]
           anchor == getFirstDomFromChildren(SubSeq(children, i + 1, Len(children)))
       IN reposition(IF child = NoInst THEN st
                     ELSE placeDoms(st, target, getDomNodes(child), anchor),
                     target, children, i - 1)

RECURSIVE reconcile(_, _, _, _, _)
RECURSIVE mountChildren(_, _, _, _, _, _, _)
RECURSIVE reconcileQueued(_, _, _, _, _)

\* the children of a fragment or host element, mounted in order
mountChildren(st, parentDom, filtered, siblings, path, index, children) ==
  IF index >= Len(filtered) THEN [st |-> st, children |-> children]
  ELSE Bind(reconcile(st, parentDom, NoInst, filtered[index + 1],
                      createChildPath(path, KeyOf(filtered[index + 1]), index,
                                      TypeOf(filtered[index + 1]), Siblings(siblings))),
            LAMBDA r :
         mountChildren(r.st, parentDom, filtered, siblings, path, index + 1,
                       Append(children, r.inst)))

\* phase 3: reconcile every matched pair, in the order of the new children
reconcileQueued(st, target, oldChildren, queue, children) ==
  IF queue = <<>> THEN [st |-> st, children |-> children]
  ELSE Bind(reconcile(st, target,
                      IF Head(queue).old = 0 THEN NoInst ELSE oldChildren[Head(queue).old],
                      Head(queue).newChild, Head(queue).childPath),
            LAMBDA r :
         reconcileQueued(r.st, target, oldChildren, Tail(queue), Append(children, r.inst)))

mountComponent(st, parentDom, node, path) ==
  Bind(callComponent([st EXCEPT !.stack = Append(@, path), !.visited = @ \cup {path}], node),
       LAMBDA c :
  Bind(reconcile(c.st, parentDom, NoInst, c.node,
                 createChildPath(path, NoKey, 0, TypeOf(c.node), NoSiblings)),
       LAMBDA r :
    [st |-> [r.st EXCEPT !.stack = Pop(@)],
     inst |-> [kind |-> NodeCOMPONENT, dom |-> NoDom, node |-> node,
               children |-> IF r.inst # NoInst THEN <<r.inst>> ELSE <<>>,
               key |-> node.key, path |-> path]]))

mountText(st, parentDom, node, path) ==
  Bind(createNode(st, HostNode("text", "#text", node.props.nodeValue)), LAMBDA n :
  Bind([kind |-> NodeTEXT, dom |-> n.id, node |-> node, children |-> <<>>,
        key |-> node.key, path |-> path], LAMBDA newInstance :
    [st |-> insertInstance(n.st, parentDom, newInstance, NoDom), inst |-> newInstance]))

mountFragment(st, parentDom, node, path) ==
  Bind(mountChildren(st, parentDom, filterEmpty(node.props.children),
                     node.props.children, path, 0, <<>>), LAMBDA r :
    [st |-> r.st,
     inst |-> [kind |-> NodeFRAGMENT, dom |-> NoDom, node |-> node,
               children |-> r.children, key |-> node.key, path |-> path]])

mountHost(st, parentDom, node, path) ==
  Bind(createNode(st, HostNode("element", node.type, "")), LAMBDA n :
  Bind(mountChildren(setDomProps(n.st, n.id, node.props.attrs), n.id,
                     filterEmpty(node.props.children), node.props.children, path, 0, <<>>),
       LAMBDA r :
  Bind([kind |-> NodeHOST, dom |-> n.id, node |-> node,
        children |-> r.children, key |-> node.key, path |-> path], LAMBDA newInstance :
    [st |-> insertInstance(r.st, parentDom, newInstance, NoDom), inst |-> newInstance])))

\* the path a component is re-run at: its own in the plain reconciler, the
\* resolved one in the reconciler with hook migration
componentPath(st, instance, path) ==
  IF st.variant = "migrating" THEN path ELSE instance.path

\* the component update without try/finally: an exception skips the pop
updateComponentNoFinally(st, parentDom, instance, node, path) ==
  LET p == componentPath(st, instance, path)
      oldChildInstance == IF instance.children # <<>> THEN instance.children[1] ELSE NoInst
  IN Bind(callComponent([st EXCEPT !.stack = Append(@, p), !.visited = @ \cup {p}], node),
          LAMBDA c :
     Bind(reconcile(c.st, parentDom, oldChildInstance, c.node,
                    IF oldChildInstance # NoInst THEN oldChildInstance.path
                    ELSE createChildPath(p, NoKey, 0, TypeOf(c.node), NoSiblings)),
          LAMBDA r :
       [st |-> IF r.st.thrown THEN r.st ELSE [r.st EXCEPT !.stack = Pop(@)],
        inst |-> [instance EXCEPT !.node = node,
                                  !.children = IF r.inst # NoInst THEN <<r.inst>> ELSE <<>>,
                                  !.path = p]]))

updateComponent(st, parentDom, instance, node, path) ==
  LET p == componentPath(st, instance, path)
      oldChildInstance == IF instance.children # <<>> THEN instance.children[1] ELSE NoInst
  IN Bind(callComponent([st EXCEPT !.stack = Append(@, p), !.visited = @ \cup {p}], node),
          LAMBDA c :
     Bind(reconcile(c.st, parentDom, oldChildInstance, c.node,
                    IF oldChildInstance # NoInst THEN oldChildInstance.path
                    ELSE createChildPath(p, NoKey, 0, TypeOf(c.node), NoSiblings)),
          LAMBDA r :
       [st |-> [r.st EXCEPT !.stack = Pop(@)],
        inst |-> [instance EXCEPT !.node = node,
                                  !.children = IF r.inst # NoInst THEN <<r.inst>> ELSE <<>>,
                                  !.path = p]]))

updateText(st, instance, node) ==
  [st |-> IF node.props.nodeValue # instance.node.props.nodeValue
          THEN Log([st EXCEPT !.dom[instance.dom].nodeValue = node.props.nodeValue],
                   [ev |-> "dom", op |-> "nodeValue", node |-> instance.dom, parent |-> NoDom])
          ELSE st,
   inst |-> [instance EXCEPT !.node = node]]

\* the children diff of a fragment (target: the parent's host node) and of a
\* host element (target: its own host node)
updateChildren(st, target, instance, node, path) ==
  Bind(IF st.variant = "migrating"
       THEN matchByType(instance.children, filterEmpty(node.props.children), path,
                        0, {}, <<>>, <<>>)
       ELSE matchByIndex(instance.children, filterEmpty(node.props.children), path,
                         0, {}, 0, <<>>), LAMBDA m :
  Bind(reconcileQueued(IF st.variant = "migrating"
                       THEN migrateHooks(st, instance.children, m.queue) ELSE st,
                       target, instance.children, m.queue, <<>>), LAMBDA r :
    [st |-> reposition(removeUnused(r.st, target, instance.children, m.used, 1),
                       target, r.children, Len(r.children)),
     inst |-> [instance EXCEPT !.node = node, !.children = r.children]]))

reconcile(st, parentDom, instance, node, path) ==
  IF st.thrown THEN [st |-> st, inst |-> NoInst]
  ELSE IF node = VNull
  THEN [st |-> IF instance # NoInst
               THEN removeInstance(cleanupInstance(st, instance), parentDom, instance)
               ELSE st,
        inst |-> NoInst]
  ELSE IF isEmptyValue(node) THEN [st |-> st, inst |-> NoInst]
  ELSE IF instance = NoInst
  THEN IF IsFunction(node.type) THEN mountComponent(st, parentDom, node, path)
       ELSE IF node.type = TEXT_ELEMENT THEN mountText(st, parentDom, node, path)
       ELSE IF node.type = Fragment THEN mountFragment(st, parentDom, node, path)
       ELSE mountHost(st, parentDom, node, path)
  ELSE IF instance.node.type # node.type \/ instance.key # node.key
  THEN reconcile(removeInstance(cleanupInstance(st, instance), parentDom, instance),
                 parentDom, NoInst, node, path)
  ELSE IF IsFunction(node.type) THEN updateComponent(st, parentDom, instance, node, path)
  ELSE IF node.type = TEXT_ELEMENT /\ instance.dom # NoDom THEN updateText(st, instance, node)
  ELSE IF node.type = Fragment THEN updateChildren(st, parentDom, instance, node, path)
  ELSE IF instance.dom # NoDom
  THEN updateChildren(updateDomProps(st, instance.dom, instance.node.props.attrs,
                                     node.props.attrs),
                      instance.dom, instance, node, path)
  ELSE [st |-> st, inst |-> instance]

----------------------------------------------------------------------------
(* render.ts, setup, and the scheduler of ../utils *)

\* the callback stops at the first effect whose setter call schedules a render
RECURSIVE runEffectsUntilSet(_, _)
runEffectsUntilSet(st, effectsToRun) ==
  IF effectsToRun = <<>> THEN st
  ELSE LET e == Head(effectsToRun) IN
       IF ~MapHas(st.state, e.path) THEN runEffectsUntilSet(st, Tail(effectsToRun))
       ELSE LET arr == MapGet(st.state, e.path)
                hook == ArrGet(st.arrays[arr], e.cursor)
            IN IF ~IsEffectHook(hook) THEN runEffectsUntilSet(st, Tail(effectsToRun))
               ELSE Bind(callEffect(IF hook.cleanup # NoCleanup
                                    THEN callCleanup(st, arr, hook) ELSE st,
                                    arr, e.path, e.cursor, hook.effect), LAMBDA c :
                      runEffectsUntilSet([c.st EXCEPT !.arrays[arr][e.cursor + 1].cleanup = c.cleanup],
                                         IF c.st.scheduled THEN <<>> ELSE Tail(effectsToRun)))

\* the callback render hands to enqueue
RECURSIVE runEffects(_, _)
runEffects(st, effectsToRun) ==
  IF effectsToRun = <<>> THEN st
  ELSE LET e == Head(effectsToRun) IN
       IF ~MapHas(st.state, e.path) THEN runEffects(st, Tail(effectsToRun))
       ELSE LET arr == MapGet(st.state, e.path)
                hook == ArrGet(st.arrays[arr], e.cursor)
            IN IF ~IsEffectHook(hook) THEN runEffects(st, Tail(effectsToRun))
               ELSE Bind(callEffect(IF hook.cleanup # NoCleanup
                                    THEN callCleanup(st, arr, hook) ELSE st,
                                    arr, e.path, e.cursor, hook.effect), LAMBDA c :
                      runEffects([c.st EXCEPT !.arrays[arr][e.cursor + 1].cleanup = c.cleanup],
                                 Tail(effectsToRun)))

resetCursors(cursor) == [i \in 1..Len(cursor) |-> [k |-> cursor[i].k, v |-> 0]]

render(st) ==
  IF st.root.container = NoDom THEN st
  ELSE Bind(reconcile([st EXCEPT !.cursor = resetCursors(@), !.visited = {},
                                 !.passes = @ + 1],
                      st.root.container, st.root.instance, st.root.node, "0"), LAMBDA r :
         IF r.st.thrown THEN r.st
         ELSE Bind(cleanupUnusedHooks([r.st EXCEPT !.root.instance = r.inst]), LAMBDA st2 :
                IF st2.queue # <<>>
                THEN enqueue([st2 EXCEPT !.queue = <<>>],
                             [task |-> "flush", effectsToRun |-> st2.queue])
                ELSE st2))

\* the container argument of setup: null, an object that is no HTMLElement, or
\* an element
NullContainer == [is |-> "null"]

NotAnElement == [is |-> "object"]

Element(id) == [is |-> "element", id |-> id]

\* the root node is checked after the container was emptied
setupChecksRootLate(st, rootNode, container) ==
  IF container = NullContainer THEN Throw(st, "no container")
  ELSE IF container = NotAnElement THEN Throw(st, "not an HTMLElement")
  ELSE IF rootNode = VNull THEN Throw(clearTextContent(st, container.id), "null root")
  ELSE render([cleanupUnusedHooks(
                 clearTextContent(
                   IF st.root.instance # NoInst /\ st.root.container = container.id
                   THEN removeInstance(st, container.id, st.root.instance) ELSE st,
                   container.id))
               EXCEPT !.root = [container |-> container.id, node |-> rootNode,
                                instance |-> NoInst],
                      !.state = <<>>, !.cursor = <<>>, !.visited = {}, !.stack = <<>>])

setup(st, rootNode, container) ==
  IF rootNode = VNull THEN Throw(st, "null root")
  ELSE IF container = NullContainer THEN Throw(st, "no container")
  ELSE IF container = NotAnElement THEN Throw(st, "not an HTMLElement")
  ELSE render([cleanupUnusedHooks(
                 clearTextContent(
                   IF st.root.instance # NoInst /\ st.root.container = container.id
                   THEN removeInstance(st, container.id, st.root.instance) ELSE st,
                   container.id))
               EXCEPT !.root = [container |-> container.id, node |-> rootNode,
                                instance |-> NoInst],
                      !.state = <<>>, !.cursor = <<>>, !.visited = {}, !.stack = <<>>])

----------------------------------------------------------------------------
(* The inputs of each application *)

Scenarios == {"keyed", "unkeyed", "mixed", "static", "lazy", "gate", "twins", "loop", "throwing",
              "nested", "remount"}

Kid(type, key) == [type |-> type, key |-> key]

SeqsUpTo(S, n) == UNION {[1..k -> S] : k \in 0..n}

NoRepeat(s) == \A i, j \in 1..Len(s) : i # j => s[i] # s[j]

\* the lists of children App may be told to render
KidLists(sc) ==
  IF sc = "keyed"
  THEN {s \in SeqsUpTo({Kid("X", "a"), Kid("X", "b"), Kid("X", "c")}, MaxKids) : NoRepeat(s)}
  ELSE IF sc = "unkeyed" THEN SeqsUpTo({Kid("X", NoKey)}, MaxKids)
  ELSE IF sc = "mixed"
  THEN SeqsUpTo({Kid("X", NoKey), Kid("Y", NoKey), Kid("p", NoKey)}, MaxKids - 1)
  ELSE IF sc = "static"
  THEN SeqsUpTo({Kid("Pair", NoKey), Kid("p", NoKey), Kid("X", NoKey)}, MaxKids - 1)
  ELSE IF sc = "twins" THEN SeqsUpTo({Kid("X", "a"), Kid("Y", "a")}, MaxKids - 1)
  ELSE IF sc = "gate"
  THEN SeqsUpTo({Kid("Gate", "a"), Kid("X", "a"), Kid("Y", "a")}, 1)
  ELSE IF sc = "nested"
  THEN SeqsUpTo({Kid("Gate", NoKey), Kid("p", NoKey)}, MaxKids - 1)
  ELSE IF sc = "throwing"
  THEN {s \in SeqsUpTo({Kid("Thrower", "a"), Kid("X", "b")}, MaxKids - 1) :
          NoRepeat(s) /\ (s # <<>> => s[1].type = "Thrower")}
  ELSE IF sc = "loop"
  THEN {s \in SeqsUpTo({Kid("Z", "a"), Kid("Z", "b")}, MaxKids - 1) : NoRepeat(s)}
  ELSE SeqsUpTo({Kid("X", NoKey)}, 1)

\* the root nodes setup is called with: <App wrap="div"/> and <App wrap="Fragment"/>
RootNodes ==
  {VNode("App", NoKey, <<[k |-> "wrap", v |-> StrV(w)]>>, <<>>) : w \in {"div", Fragment}}

\* one application is the component alone: <X/>
RootInputs(sc) ==
  IF sc = "remount" THEN {VNode("X", NoKey, <<>>, <<>>)} ELSE RootNodes

\* the containers setup is called with; one application also moves to a second element
ContainerInputs(sc) ==
  {NullContainer, NotAnElement, Element(1)} \cup (IF sc = "lazy" THEN {Element(2)} ELSE {})

\* what a kept setter may be called with
NextValues(sc, s) ==
  IF s.type = "App"
  THEN {[val |-> KidsV(ks, 1)] : ks \in KidLists(sc)}
       \cup {[updater |-> "same"]}
  ELSE IF s.type = "Gate" /\ sc = "nested" THEN {[val |-> StrV("show")]}
  ELSE IF s.type = "Gate"
  THEN {[val |-> StrV(v)] : v \in {"show", "swap", "keyed", "null", "undefined", "false"}}
  ELSE IF sc \in {"keyed", "gate", "twins", "throwing", "nested"} THEN {[updater |-> "inc"]}
  ELSE IF sc = "loop" THEN {[val |-> IntV(0)], [updater |-> "inc"]}
  ELSE {[val |-> IntV(n)] : n \in 0..MaxVal}
       \cup {[updater |-> "inc"], [updater |-> "same"]}
       \cup (IF sc = "lazy" THEN {[val |-> Undefined]} ELSE {})

----------------------------------------------------------------------------
(* The state machine *)

\* no object was renamed
NoNames == [dom |-> <<>>, arr |-> <<>>, cl |-> <<>>]

NoTurn == [calls |-> 0, sets |-> 0, by |-> {}, setups |-> 0, passes |-> 0, flushes |-> 0,
           done |-> FALSE]

\* no function is being called on its own
NoFn == [op |-> "none"]

\* nothing is mounted
Unmounted ==
  /\ root = [container |-> NoDom, node |-> VNull, instance |-> NoInst]
  /\ hooks = [state |-> <<>>, cursor |-> <<>>, visited |-> {}, componentStack |-> <<>>]
  /\ effects = [queue |-> <<>>]
  /\ arrays = <<>>
  /\ dom = [n \in Containers |-> HostNode("element", "div", "")]
  /\ mq = <<>>
  /\ scheduled = FALSE
  /\ draining = FALSE
  /\ setters = {}
  /\ log = <<>>
  /\ names = NoNames
  /\ turn = NoTurn

InitApp(sc) ==
  /\ variant \in {"plain", "migrating"}
  /\ scn = sc
  /\ Unmounted
  /\ applied = NoFn

Init == \E sc \in Scenarios : InitApp(sc)

\* the cleanup functions some hook record holds
StoredCleanups(arrs) ==
  {arrs[a][i].cleanup : <<a, i>> \in {<<a, i>> \in (DOMAIN arrs) \X (1..8) :
      i <= Len(arrs[a]) /\ IsEffectHook(arrs[a][i])}} \ {NoCleanup}

\* the world at the start of a step
World ==
  [variant |-> variant, root |-> root, state |-> hooks.state, cursor |-> hooks.cursor,
   visited |-> hooks.visited, stack |-> hooks.componentStack, queue |-> effects.queue,
   arrays |-> arrays, dom |-> dom, mq |-> mq, scheduled |-> scheduled,
   log |-> <<>>, thrown |-> FALSE, kept |-> {}, passes |-> 0,
   usedDom |-> DOMAIN dom, usedArr |-> DOMAIN arrays, usedCl |-> StoredCleanups(arrays)]

RECURSIVE instanceDoms(_)
RECURSIVE instancesDoms(_)
instanceDoms(instance) ==
  IF instance = NoInst THEN {}
  ELSE (IF instance.dom # NoDom THEN {instance.dom} ELSE {}) \cup instancesDoms(instance.children)

instancesDoms(children) ==
  IF children = <<>> THEN {} ELSE instanceDoms(Head(children)) \cup instancesDoms(Tail(children))

\* the host nodes something still refers to
RECURSIVE Reach(_, _)
Reach(d, S) ==
  LET T == S \cup UNION {SeqToSet(d[n].kids) : n \in S}
             \cup ({d[n].parent : n \in S} \ {NoDom})
  IN IF T = S THEN S ELSE Reach(d, T)

\* Object identities (host nodes, hook arrays, cleanup functions) are numbers
\* that carry no meaning of their own: the next state names the objects in the
\* order in which the program's structures reach them, so that two states that
\* differ only in the names are one state.
RECURSIVE Ascending(_)
Ascending(S) == IF S = {} THEN <<>> ELSE <<Min(S)>> \o Ascending(S \ {Min(S)})

RECURSIVE Dedupe(_, _)
Dedupe(s, seen) ==
  IF s = <<>> THEN <<>>
  ELSE IF Head(s) \in seen THEN Dedupe(Tail(s), seen)
  ELSE <<Head(s)>> \o Dedupe(Tail(s), seen \cup {Head(s)})

RECURSIVE below(_, _)
RECURSIVE belowAll(_, _)
below(d, n) == belowAll(d, d[n].kids)

belowAll(d, ks) ==
  IF ks = <<>> THEN <<>>
  ELSE <<Head(ks)>> \o below(d, Head(ks)) \o belowAll(d, Tail(ks))

RECURSIVE belowEach(_, _)
belowEach(d, ns) == IF ns = <<>> THEN <<>> ELSE below(d, Head(ns)) \o belowEach(d, Tail(ns))

NameOf(order, n) == IF n = 0 THEN 0 ELSE IndexOf(order, n)

RECURSIVE renameInstance(_, _)
renameInstance(order, instance) ==
  IF instance = NoInst THEN NoInst
  ELSE [instance EXCEPT !.dom = NameOf(order, @),
                        !.children = [i \in 1..Len(@) |-> renameInstance(order, @[i])]]

RECURSIVE slotCleanups(_)
slotCleanups(slots) ==
  IF slots = <<>> THEN <<>>
  ELSE (IF IsEffectHook(Head(slots)) /\ Head(slots).cleanup # NoCleanup
        THEN <<Head(slots).cleanup>> ELSE <<>>) \o slotCleanups(Tail(slots))

RECURSIVE arraysCleanups(_, _)
arraysCleanups(arrs, order) ==
  IF order = <<>> THEN <<>>
  ELSE slotCleanups(arrs[Head(order)]) \o arraysCleanups(arrs, Tail(order))

\* a stored list of children is compared by identity with the next one only
renameSlot(clOrder, slot) ==
  IF IsEffectHook(slot) THEN [slot EXCEPT !.cleanup = NameOf(clOrder, @)]
  ELSE IF IsKids(slot) THEN [slot EXCEPT !.ref = 0]
  ELSE slot

\* the world at the end of a step becomes the next state; host nodes and hook
\* arrays nothing refers to are forgotten
Names(st, keptSetters) ==
  LET liveArr == MapValues(st.state) \cup {s.arr : s \in keptSetters}
      liveDom == Reach(st.dom, Containers \cup instanceDoms(st.root.instance))
      inTree == Ascending(Containers) \o belowEach(st.dom, Ascending(Containers))
      inStore == Dedupe([i \in 1..Len(st.state) |-> st.state[i].v], {})
      arrOrder == inStore \o Ascending(liveArr \ SeqToSet(inStore))
  IN [dom |-> inTree \o Ascending(liveDom \ SeqToSet(inTree)),
      arr |-> arrOrder,
      cl |-> Dedupe(arraysCleanups(st.arrays, arrOrder), {})]

Commit(st) ==
  \E keptSetters \in {IF st.thrown THEN setters \cup st.kept
                       ELSE IF st.passes > 0 THEN st.kept ELSE setters} :
  \E named \in {Names(st, keptSetters)} :
     /\ root' = [st.root EXCEPT !.container = NameOf(named.dom, @),
                                !.instance = renameInstance(named.dom, @)]
     /\ hooks' = [state |-> [i \in 1..Len(st.state) |->
                               [k |-> st.state[i].k, v |-> NameOf(named.arr, st.state[i].v)]],
                  cursor |-> st.cursor, visited |-> st.visited,
                  componentStack |-> st.stack]
     /\ effects' = [queue |-> st.queue]
     /\ arrays' = [a \in 1..Len(named.arr) |->
                     [i \in 1..Len(st.arrays[named.arr[a]]) |->
                        renameSlot(named.cl, st.arrays[named.arr[a]][i])]]
     /\ dom' = [n \in 1..Len(named.dom) |->
                  [st.dom[named.dom[n]] EXCEPT
                     !.parent = NameOf(named.dom, @),
                     !.kids = [i \in 1..Len(@) |-> NameOf(named.dom, @[i])]]]
     /\ mq' = st.mq
     /\ scheduled' = st.scheduled
     /\ setters' = {[s EXCEPT !.arr = NameOf(named.arr, @)] : s \in keptSetters}
     /\ log' = st.log
     /\ names' = named
     /\ UNCHANGED <<variant, scn, applied>>

\* how many calls the application makes in one synchronous turn: the
\* applications with many lists of children make one
TurnCalls(sc) == IF sc \in {"keyed", "mixed", "static", "gate", "twins", "loop", "throwing", "nested"}
                 THEN 1 ELSE MaxTurnCalls

\* the application stops calling setters once the host tree holds this many nodes
MaxHostNodes == 9

\* the application calls setup(rootNode, container)
Setup(rootNode, container) ==
  /\ ~draining
  /\ ~turn.done
  /\ turn.calls < TurnCalls(scn)
  /\ \E st \in {setup(Log(World, [ev |-> "setup", rootNode |-> rootNode,
                                 container |-> container]),
                     rootNode, container)} :
        /\ Commit(st)
        /\ turn' = [turn EXCEPT !.calls = @ + 1,
                                !.setups = IF st.thrown THEN @ ELSE @ + 1]
  /\ UNCHANGED draining

\* the application calls a setter it kept
SetState(s, nextValue) ==
  /\ ~draining
  /\ ~turn.done
  /\ turn.calls < TurnCalls(scn)
  /\ Len(dom) <= MaxHostNodes
  /\ \E st \in {setState(Log(World, [ev |-> "setState", s |-> s, nextValue |-> nextValue]),
                         s, nextValue)} :
        /\ Commit(st)
        /\ turn' = [turn EXCEPT !.calls = @ + 1,
                                !.sets = IF st.arrays # arrays THEN @ + 1 ELSE @,
                                !.by = IF st.arrays # arrays THEN @ \cup {s.type} ELSE @]
  /\ UNCHANGED draining

\* The synchronous turn of the application ends when the first microtask runs;
\* the queue is then drained before the application is called again.
\* the microtask withEnqueue queued: try { render() } finally { scheduled = false }
RunRender ==
  /\ mq # <<>>
  /\ Head(mq).task = "render"
  /\ \E st \in {render([World EXCEPT !.mq = Tail(mq)])} :
        /\ Commit([st EXCEPT !.scheduled = FALSE])
        /\ draining' = (st.mq # <<>>)
        /\ turn' = [turn EXCEPT !.passes = @ + 1, !.done = (st.mq = <<>>)]

\* the microtask render queued: the effects of its pass
RunFlush ==
  /\ mq # <<>>
  /\ Head(mq).task = "flush"
  /\ \E st \in {runEffects(Log([World EXCEPT !.mq = Tail(mq)],
                               [ev |-> "flush", effectsToRun |-> Head(mq).effectsToRun]),
                           Head(mq).effectsToRun)} :
        /\ Commit(st)
        /\ draining' = (st.mq # <<>>)
        /\ turn' = [turn EXCEPT !.flushes = @ + 1, !.done = (st.mq = <<>>)]

\* the synchronous turn ends with no microtask queued
EndTurn ==
  /\ ~draining
  /\ mq = <<>>
  /\ ~turn.done
  /\ turn.calls > 0
  /\ turn' = [turn EXCEPT !.done = TRUE]
  /\ names' = NoNames
  /\ UNCHANGED <<variant, scn, root, hooks, effects, arrays, dom, mq, scheduled,
                 draining, setters, log, applied>>

\* the next turn of the application begins: the record of the last one is dropped
NewTurn ==
  /\ turn.done
  /\ turn' = NoTurn
  /\ log' = <<>>
  /\ names' = NoNames
  /\ UNCHANGED <<variant, scn, root, hooks, effects, arrays, dom, mq, scheduled,
                 draining, setters, applied>>

Next ==
  \/ \E rootNode \in RootInputs(scn) \cup {VNull}, container \in ContainerInputs(scn) :
       Setup(rootNode, container)
  \/ \E s \in setters :
       \E nextValue \in NextValues(scn, s) :
         SetState(s, nextValue)
  \/ EndTurn
  \/ NewTurn
  \/ RunRender
  \/ RunFlush

Spec == Init /\ [][Next]_vars

\* one application at a time
InitKeyed == InitApp("keyed")

SpecKeyed == InitKeyed /\ [][Next]_vars

InitUnkeyed == InitApp("unkeyed")

SpecUnkeyed == InitUnkeyed /\ [][Next]_vars

InitMixed == InitApp("mixed")

SpecMixed == InitMixed /\ [][Next]_vars

InitStatic == InitApp("static")

SpecStatic == InitStatic /\ [][Next]_vars

InitLazy == InitApp("lazy")

InitTwins == InitApp("twins")

SpecTwins == InitTwins /\ [][Next]_vars

InitGate == InitApp("gate")

SpecGate == InitGate /\ [][Next]_vars

InitLoop == InitApp("loop")

SpecLoop == InitLoop /\ [][Next]_vars

InitNested == InitApp("nested")

SpecNested == InitNested /\ [][Next]_vars

InitRemount == InitApp("remount")

SpecRemount == InitRemount /\ [][Next]_vars

InitThrowing == InitApp("throwing")

SpecThrowing == InitThrowing /\ [][Next]_vars

SpecLazy == InitLazy /\ [][Next]_vars

----------------------------------------------------------------------------
(* What the properties below read off a state and off the last step *)

\* the step was a render pass scheduled by a setter
IsPass == turn'.passes = turn.passes + 1

\* the instance App rendered: the div or the fragment that holds the children
Wrapper(r) == r.instance.children[1]

Mounted(r) == r.instance # NoInst /\ r.instance.children # <<>>

\* the children under the wrapper (component instances)
Kids(r) == IF Mounted(r) THEN Wrapper(r).children ELSE <<>>

KidKeys(r) == [i \in 1..Len(Kids(r)) |-> Kids(r)[i].key]

KidTypes(r) == [i \in 1..Len(Kids(r)) |-> Kids(r)[i].node.type]

\* the list of children App is about to render: the value its state hook holds
NextKids(h, a) == ArrGet(a[MapGet(h.state, "0")], 0).kids

\* the value the state hook (slot 0) of the component at a path holds
StateAt(h, a, path) == ArrGet(a[MapGet(h.state, path)], 0)

\* the host element the children's host nodes are placed in
ParentHost(r) == IF Wrapper(r).kind = NodeHOST THEN Wrapper(r).dom ELSE r.container

\* what the host tree shows for each host child of an element: the text in it
Shown(d, n) == IF d[n].kids = <<>> THEN "" ELSE d[d[n].kids[1]].nodeValue

ShownUnder(d, p) == [i \in 1..Len(d[p].kids) |-> Shown(d, d[p].kids[i])]

\* the events of a kind in a log
Events(l, kind) == SelectSeq(l, LAMBDA e : e.ev = kind)

\* the state-hook reads of the component at a path
ReadsAt(l, path) == SelectSeq(Events(l, "useState"), LAMBDA e : e.path = path /\ e.cursor = 0)

----------------------------------------------------------------------------
(* C1: keyed reorder *)

\* the pass renders the same keyed children in another order
IsKeyedPermutation ==
  /\ IsPass
  /\ Mounted(root)
  /\ MapHas(hooks.state, "0")
  /\ IsKids(StateAt(hooks, arrays, "0"))
  /\ Len(NextKids(hooks, arrays)) = Len(Kids(root))
  /\ \A i \in 1..Len(Kids(root)) : KidKeys(root)[i] # NoKey
  /\ NoRepeat(KidKeys(root))
  /\ {NextKids(hooks, arrays)[i].key : i \in 1..Len(Kids(root))} = SeqToSet(KidKeys(root))
  /\ \A i \in 1..Len(Kids(root)) : MapHas(hooks.state, Kids(root)[i].path)

\* the value the child with a key held before the pass
HeldBefore(key) ==
  StateAt(hooks, arrays, Kids(root)[CHOOSE i \in 1..Len(Kids(root)) : KidKeys(root)[i] = key].path)

\* the host node of the child with a key before the pass
HostBefore(key) ==
  getFirstDom(Kids(root)[CHOOSE i \in 1..Len(Kids(root)) : KidKeys(root)[i] = key])

\* C1: after a pass that permutes children with pairwise distinct keys under
\* one host element or fragment, (a) the host nodes under the parent are the
\* children's own host nodes in the new order, each showing the value its key
\* held, and
\* (b) every read of a child's state hook during the pass returned the value
\* that key held before the pass
C1_KeyedReorderKeepsOrderAndState ==
  [][IsKeyedPermutation =>
       LET new == NextKids(hooks, arrays) IN
       /\ Mounted(root')
       /\ KidKeys(root') = [i \in 1..Len(new) |-> new[i].key]
       /\ dom'[ParentHost(root')].kids = getDomNodesOfChildren(Kids(root'))
       /\ [i \in 1..Len(new) |-> names'.dom[dom'[ParentHost(root')].kids[i]]] =
            [i \in 1..Len(new) |-> HostBefore(new[i].key)]
       /\ ShownUnder(dom', ParentHost(root')) =
            [i \in 1..Len(new) |-> String(HeldBefore(new[i].key))]
       /\ \A i \in 1..Len(new) :
            /\ ReadsAt(log', Kids(root')[i].path) # <<>>
            /\ \A j \in 1..Len(ReadsAt(log', Kids(root')[i].path)) :
                 ReadsAt(log', Kids(root')[i].path)[j].state = HeldBefore(new[i].key)]_vars

\* a pass has just moved the child with key c from the last place to the first
\* while the children hold different values
C1_Witness ==
  /\ turn.passes = 1
  /\ Mounted(root)
  /\ KidKeys(root) = <<"c", "a", "b">>
  /\ Len(Events(log, "call")) = 4
  /\ Events(log, "init") = <<>>
  /\ \A e \in SeqToSet(Events(log, "dom")) : e.op \in {"insertBefore", "appendChild"}
  /\ Events(log, "dom") # <<>>
  /\ ShownUnder(dom, ParentHost(root)) \in {<<"1", "0", "0">>, <<"0", "1", "0">>, <<"1", "0", "1">>}

----------------------------------------------------------------------------
(* C2: unkeyed children of one type, grown at the end *)

AllUnkeyedX(kids) == \A i \in 1..Len(kids) : kids[i].type = "X" /\ kids[i].key = NoKey

\* the pass renders n + m unkeyed X where n unkeyed X are mounted
IsUnkeyedGrowth ==
  /\ IsPass
  /\ Mounted(root)
  /\ MapHas(hooks.state, "0")
  /\ IsKids(StateAt(hooks, arrays, "0"))
  /\ AllUnkeyedX(NextKids(hooks, arrays))
  /\ \A i \in 1..Len(Kids(root)) : KidTypes(root)[i] = "X" /\ KidKeys(root)[i] = NoKey
  /\ Len(NextKids(hooks, arrays)) >= Len(Kids(root))
  /\ \A i \in 1..Len(Kids(root)) : MapHas(hooks.state, Kids(root)[i].path)

\* C2: when n unkeyed X are mounted and the pass renders n + m unkeyed X, the
\* first n are updated in place (same path, every read of the state hook
\* returns the value held before the pass, the initializer is not run, no
\* host node is removed) and the last m are mounted with the initial state
C2_UnkeyedGrowthKeepsFirst ==
  [][IsUnkeyedGrowth =>
       LET n == Len(Kids(root))
           new == NextKids(hooks, arrays)
       IN /\ Mounted(root')
          /\ Len(Kids(root')) = Len(new)
          /\ \A e \in SeqToSet(Events(log', "dom")) : e.op # "removeChild"
          /\ \A i \in 1..n :
               /\ Kids(root')[i].path = Kids(root)[i].path
               /\ ReadsAt(log', Kids(root)[i].path) # <<>>
               /\ \A e \in SeqToSet(ReadsAt(log', Kids(root)[i].path)) :
                    e.state = StateAt(hooks, arrays, Kids(root)[i].path)
               /\ \A e \in SeqToSet(Events(log', "init")) : e.path # Kids(root)[i].path
               /\ Shown(dom', dom'[ParentHost(root')].kids[i]) =
                    String(StateAt(hooks, arrays, Kids(root)[i].path))
          /\ \A i \in (n + 1)..Len(new) :
               /\ \E e \in SeqToSet(Events(log', "init")) : e.path = Kids(root')[i].path
               /\ \A e \in SeqToSet(ReadsAt(log', Kids(root')[i].path)) : e.state = IntV(0)
               /\ Shown(dom', dom'[ParentHost(root')].kids[i]) = "0"]_vars

\* a pass has just grown two mounted X, one of them holding 1, to three
C2_Witness ==
  /\ turn.passes = 1
  /\ Mounted(root)
  /\ KidTypes(root) = <<"X", "X", "X">>
  /\ Len(Events(log, "call")) = 4
  /\ Len(Events(log, "init")) = 1
  /\ Events(log, "init")[1].path = Kids(root)[3].path
  /\ ShownUnder(dom, ParentHost(root)) \in {<<"1", "0", "0">>, <<"0", "1", "0">>}

----------------------------------------------------------------------------
(* C3: effect dependencies *)

IsFlush == turn'.flushes = turn.flushes + 1

\* an instance after the step is the component that was mounted before it:
\* same function, same path, and it kept its host node
IsContinued(c, cn) ==
  /\ c.kind = NodeCOMPONENT /\ cn.kind = NodeCOMPONENT
  /\ c.node.type = cn.node.type
  /\ c.path = cn.path
  /\ getFirstDom(cn) # NoDom
  /\ names'.dom[getFirstDom(cn)] = getFirstDom(c)

\* the hook a slot of a path holds
HookAt(h, a, path, cursor) ==
  IF MapHas(h.state, path) THEN ArrGet(a[MapGet(h.state, path)], cursor) ELSE Undefined

\* how many runs of the effect at a slot the last queued flush holds
RunsQueued(q, path, cursor) ==
  IF q = <<>> \/ q[Len(q)].task # "flush" THEN 0
  ELSE Len(SelectSeq(q[Len(q)].effectsToRun,
                     LAMBDA e : e.path = path /\ e.cursor = cursor))

\* where in a log the events that satisfy a test are
Where(l, Test(_)) == {n \in 1..Len(l) : Test(l[n])}

\* the children that have a path
WithPath(kids, path) == {i \in 1..Len(kids) : kids[i].path = path}

\* what a component rendered in its last pass: X and Y render their state, and X
\* passes its state as the deps of its effect
Rendered(c) == c.children[1].node.props.children[1].props.nodeValue

\* the pass calls useEffect of a component that stays mounted: with the deps of
\* the pass before, no run is queued; with other deps, one run is queued and the
\* slot keeps the stored cleanup and holds the new deps for the flush; without
\* deps, one run is queued
PassSchedulesByDeps ==
  IsPass =>
    \A i \in 1..Len(Kids(root)), j \in 1..Len(Kids(root')) :
      /\ IsContinued(Kids(root)[i], Kids(root')[j])
      /\ WithPath(Kids(root), Kids(root)[i].path) = {i}
      /\ WithPath(Kids(root'), Kids(root')[j].path) = {j}
      => LET path == Kids(root')[j].path
             es == SelectSeq(Events(log', "useEffect"), LAMBDA e : e.path = path)
         IN /\ Len(es) = 1
            /\ \A k \in 1..Len(es) :
                 LET prev == HookAt(hooks, arrays, path, es[k].cursor)
                     now == HookAt(hooks', arrays', path, es[k].cursor)
                     runs == RunsQueued(mq', path, es[k].cursor)
                 IN IF es[k].deps = DepsUndefined THEN runs = 1
                    ELSE IF Rendered(Kids(root)[i]) = Rendered(Kids(root')[j]) THEN runs = 0
                    ELSE /\ runs = 1
                         /\ IsEffectHook(now) /\ now.deps = es[k].deps
                         /\ IsEffectHook(prev) /\ prev.cleanup # NoCleanup =>
                              /\ now.cleanup # NoCleanup
                              /\ names'.cl[now.cleanup] = prev.cleanup

\* the flush runs each queued effect: the cleanup the slot stores is invoked
\* once, then the effect body the last pass stored is invoked once
FlushRunsCleanupThenEffect ==
  IsFlush =>
    \A k \in 1..Len(Head(mq).effectsToRun) :
      LET e == Head(mq).effectsToRun[k]
          hook == HookAt(hooks, arrays, e.path, e.cursor)
          bodies == Where(log', LAMBDA x : x.ev = "effect" /\ x.path = e.path
                                            /\ x.cursor = e.cursor)
          invoked == Where(log', LAMBDA x : x.ev = "cleanup" /\ x.id = hook.cleanup)
      IN IsEffectHook(hook) =>
           /\ Cardinality(bodies) = 1
           /\ \A b \in bodies : log'[b].effect = hook.effect
           /\ hook.cleanup # NoCleanup =>
                /\ Cardinality(invoked) = 1
                /\ \A a \in invoked : a + 1 \in bodies

\* C3: for the effect hook at a slot of a component that stays mounted, a pass
\* with deps shallow-equal to those of the pass before schedules no run; a pass
\* with other deps causes one invocation of the stored cleanup followed by one
\* invocation of the new effect body; a pass without deps schedules a run.
C3_EffectRunsByDeps == [][PassSchedulesByDeps /\ FlushRunsCleanupThenEffect]_vars

----------------------------------------------------------------------------
(* C4: unmount *)

\* a component that was mounted before the step is mounted after it: an
\* instance of the same function holds its host node
Survives(c) ==
  \E j \in 1..Len(Kids(root')) :
    LET cn == Kids(root')[j] IN
      /\ cn.kind = NodeCOMPONENT
      /\ cn.node.type = c.node.type
      /\ getFirstDom(cn) # NoDom
      /\ names'.dom[getFirstDom(cn)] = getFirstDom(c)

\* C4: a component that is live before a pass and not after it has each
\* cleanup its hook record stores invoked exactly once during the pass, and
\* after the pass the hook store holds no entry for its path that is its record.
C4_UnmountRunsCleanupsOnce ==
  [][IsPass =>
       \A i \in 1..Len(Kids(root)) :
         LET c == Kids(root)[i] IN
           /\ c.kind = NodeCOMPONENT
           /\ ~Survives(c)
           /\ WithPath(Kids(root), c.path) = {i}
           /\ MapHas(hooks.state, c.path)
           => LET arr == MapGet(hooks.state, c.path) IN
                /\ \A K \in SeqToSet(slotCleanups(arrays[arr])) :
                     Cardinality(Where(log', LAMBDA e : e.ev = "cleanup" /\ e.id = K)) = 1
                /\ MapHas(hooks'.state, c.path) =>
                     names'.arr[MapGet(hooks'.state, c.path)] # arr]_vars

----------------------------------------------------------------------------
(* C5: coalescing *)

\* how many tasks of a kind the microtask queue holds
Tasks(q, kind) == Len(SelectSeq(q, LAMBDA t : t.task = kind))

\* the application only called setters in this turn, and a call changed a value
SettersChanged == turn.sets >= 1 /\ turn.setups = 0

\* the pass of the step scheduled a run of an effect
PassScheduledEffect == \E n \in 1..Len(log') : log'[n].ev = "useEffect" /\ log'[n].shouldRun

\* C5 as stated: the setter calls of one turn that changed a value result in
\* exactly one render pass and exactly one effect-flush callback.
C5_OnePassOneFlush ==
  (turn.done /\ SettersChanged) => (turn.passes = 1 /\ turn.flushes = 1)

\* C5: the setter calls of one turn that changed a value result in exactly one
\* render pass; the pass queues one flush callback when it scheduled an effect
\* and none when it scheduled no effect, so at most one flush callback runs.
C5_OnePassAtMostOneFlush ==
  /\ [](SettersChanged =>
          /\ turn.passes + Tasks(mq, "render") = 1
          /\ turn.flushes + Tasks(mq, "flush") <= 1
          /\ turn.done => mq = <<>>)
  /\ [][(IsPass /\ SettersChanged) =>
          Tasks(mq', "flush") = (IF PassScheduledEffect THEN 1 ELSE 0)]_vars

\* two setter calls in one turn changed values; one pass and one flush ran
C5_Witness ==
  /\ turn.done /\ turn.calls = 2 /\ turn.sets = 2 /\ turn.setups = 0
  /\ turn.passes = 1 /\ turn.flushes = 1

----------------------------------------------------------------------------
(* C6: round trip *)

\* the node tree an instance tree was rendered from
RECURSIVE RenderedTree(_)
RenderedTree(instance) ==
  IF instance = NoInst THEN <<>>
  ELSE <<instance.node,
         [i \in 1..Len(instance.children) |-> RenderedTree(instance.children[i])]>>

\* the tree is mounted: the host parent holds its footprint, and the pass of the
\* step renders the very same node tree
RendersSameTree ==
  /\ IsPass
  /\ Mounted(root) /\ Kids(root) # <<>>
  /\ dom[ParentHost(root)].kids = getDomNodesOfChildren(Kids(root))
  /\ RenderedTree(root'.instance) = RenderedTree(root.instance)

\* C6: a render pass against the very same node tree that is mounted issues no
\* host mutation, also for a component or fragment that owns several host nodes
\* or that has following siblings in its host parent.
C6_SameTreeNoMutation ==
  [][RendersSameTree => Events(log', "dom") = <<>>]_vars

----------------------------------------------------------------------------
(* C7: setup rejects its arguments *)

\* the step is a call of setup
IsSetup == turn'.calls = turn.calls + 1 /\ log'[1].ev = "setup"

\* setup was called with a null root node, a null container or a container
\* that is no host element
IsRejectedSetup ==
  /\ IsSetup
  /\ \/ log'[1].rootNode = VNull
     \/ log'[1].container \in {NullContainer, NotAnElement}

\* C7: setup called with a null root node, or with a container that is null or
\* no host element, throws before it does anything else: the root context, the
\* hook store, the effects queue and the host tree of every container are after
\* the call what they were before it, and nothing is queued.
C7_RejectedSetupChangesNothing ==
  [][IsRejectedSetup =>
       /\ Len(log') = 2 /\ log'[2].ev = "throw"
       /\ root' = root /\ hooks' = hooks /\ arrays' = arrays /\ effects' = effects
       /\ dom' = dom
       /\ mq' = mq /\ scheduled' = scheduled]_vars

\* a tree is mounted in container 1 and a render is pending; setup was called
\* with a null root node for container 2 and threw
C7_Witness ==
  /\ log # <<>> /\ log[1].ev = "setup" /\ log[1].rootNode = VNull
  /\ log[1].container = Element(2)
  /\ log[Len(log)].ev = "throw"
  /\ turn.calls = 2 /\ turn.sets = 1
  /\ root.container = 1 /\ Kids(root) # <<>>
  /\ dom[1].kids # <<>>
  /\ mq = <<[task |-> "render"]>>

----------------------------------------------------------------------------
(* C8: setup over a mounted tree *)

\* setup was called, with arguments it accepts, for the container that holds
\* the mounted tree
IsRemount ==
  /\ IsSetup /\ ~IsRejectedSetup
  /\ root.instance # NoInst
  /\ log'[1].container = Element(root.container)

\* the cleanups the records of the hook store hold
CleanupsInStore(h, a) ==
  UNION {SeqToSet(slotCleanups(a[arr])) : arr \in MapValues(h.state)}

\* C8: when setup is called on the container that holds a mounted tree, then
\* when it returns every cleanup the hook store held was invoked exactly once,
\* no record of the previous tree is in the store, the host children of the
\* container are the host nodes of the new tree, and every state hook the first
\* render read is in a record that did not exist before the call and holds its
\* initial value.
C8_RemountTearsDown ==
  [][IsRemount =>
       /\ \A K \in CleanupsInStore(hooks, arrays) :
            Cardinality(Where(log', LAMBDA e : e.ev = "cleanup" /\ e.id = K)) = 1
       /\ \A arr \in MapValues(hooks'.state) :
            names'.arr[arr] \notin MapValues(hooks.state)
       /\ root'.container = root.container
       /\ dom'[root'.container].kids = getDomNodes(root'.instance)
       /\ Where(log', LAMBDA e : e.ev = "useState") # {}
       /\ \A n \in Where(log', LAMBDA e : e.ev = "useState") :
            /\ log'[n].arr \notin DOMAIN arrays
            /\ log'[n].state = KidsV(<<>>, 0)
       /\ MapKeys(hooks'.state) = <<"0">>
       /\ StateAt(hooks', arrays', "0") = KidsV(<<>>, 0)]_vars

\* setup was called over a tree of two X; both stored cleanups were invoked,
\* both host nodes were removed, and App was rendered anew
C8_Witness ==
  /\ log # <<>> /\ log[1].ev = "setup" /\ log[1].container = Element(1)
  /\ turn.setups = 1 /\ turn.calls = 1
  /\ Cardinality(Where(log, LAMBDA e : e.ev = "cleanup")) = 2
  /\ Cardinality(Where(log, LAMBDA e : e.ev = "dom" /\ e.op = "removeChild")) >= 1
  /\ Cardinality(Where(log, LAMBDA e : e.ev = "useState")) = 1
  /\ Mounted(root) /\ Kids(root) = <<>>

----------------------------------------------------------------------------
(* C9: the setter *)

\* the step is a call of a setter
IsSetState == turn'.calls = turn.calls + 1 /\ log'[1].ev = "setState"

\* the value the call asks to store: given, or computed from the stored one
NextValue(call) ==
  IF "updater" \in DOMAIN call.nextValue
  THEN applyUpdater(call.nextValue.updater, ArrGet(arrays[call.s.arr], call.s.cursor))
  ELSE call.nextValue.val

\* a stored value is the value given: a list of children is stored as it is
StoredAs(slot, v) == IF IsKids(v) THEN IsKids(slot) /\ slot.kids = v.kids ELSE slot = v

\* C9: a setter called with a next value, given or computed by an updater, that
\* is identical to the stored value changes nothing and schedules nothing;
\* called with another value it overwrites that slot and no other, and a render
\* is scheduled.
C9_SetterStoresAndSchedules ==
  [][IsSetState =>
       LET call == log'[1]
           stored == ArrGet(arrays[call.s.arr], call.s.cursor)
       IN /\ Len(log') = 1
          /\ hooks' = hooks /\ root' = root /\ dom' = dom /\ effects' = effects
          /\ DOMAIN arrays' = DOMAIN arrays
          /\ IF NextValue(call) = stored
             THEN arrays' = arrays /\ mq' = mq /\ scheduled' = scheduled
             ELSE /\ \A a \in DOMAIN arrays : Len(arrays'[a]) = Len(arrays[a])
                  /\ \A a \in DOMAIN arrays : \A i \in 1..Len(arrays[a]) :
                       IF a = call.s.arr /\ i = call.s.cursor + 1
                       THEN StoredAs(arrays'[a][i], NextValue(call))
                       ELSE arrays'[a][i] = arrays[a][i]
                  /\ scheduled'
                  /\ mq' = IF scheduled THEN mq ELSE Append(mq, [task |-> "render"])
                  /\ Tasks(mq', "render") = 1]_vars

\* in one turn a setter stored another value and a render was scheduled; then a
\* setter was called with an updater that returns the stored value, and the
\* one render is still the only task
C9_Witness ==
  /\ turn.calls = 2 /\ turn.sets = 1 /\ turn.setups = 0
  /\ log # <<>> /\ log[1].ev = "setState"
  /\ "updater" \in DOMAIN log[1].nextValue /\ log[1].nextValue.updater = "same"
  /\ log[1].s.type = "X"
  /\ turn.by = {"X"}
  /\ scheduled /\ mq = <<[task |-> "render"]>>

----------------------------------------------------------------------------
(* C10: lazy initial state *)

\* the instance is mounted by the step: no instance before it held its host node
IsFresh(cn) ==
  /\ cn.kind = NodeCOMPONENT
  /\ \A i \in 1..Len(Kids(root)) :
       ~(/\ Kids(root)[i].kind = NodeCOMPONENT
         /\ Kids(root)[i].node.type = cn.node.type
         /\ names'.dom[getFirstDom(cn)] = getFirstDom(Kids(root)[i]))

\* how often the initializer of the state hook of a path was invoked in a log
Initialised(l, path) ==
  Cardinality(Where(l, LAMBDA e : e.ev = "init" /\ e.path = path /\ e.cursor = 0))

\* C10: the initializer function of a state hook is invoked once when the
\* component is mounted and never in a later pass of the mounted component,
\* also after the setter stored undefined.
C10_InitializerRunsOnce ==
  [][IsPass =>
       \A j \in 1..Len(Kids(root')) :
         LET cn == Kids(root')[j] IN
           (cn.kind = NodeCOMPONENT /\ WithPath(Kids(root'), cn.path) = {j}) =>
             IF IsFresh(cn) THEN Initialised(log', cn.path) = 1
             ELSE Initialised(log', cn.path) = 0]_vars

----------------------------------------------------------------------------
(* C11: the setter of an earlier render *)

\* the instance after the step that holds the host node of a component
\* mounted before it
Continuation(c) ==
  {j \in 1..Len(Kids(root')) :
     /\ Kids(root')[j].kind = NodeCOMPONENT
     /\ Kids(root')[j].node.type = c.node.type
     /\ getFirstDom(Kids(root')[j]) # NoDom
     /\ names'.dom[getFirstDom(Kids(root')[j])] = getFirstDom(c)}

\* C11: a component that stays mounted over a pass, also at another path,
\* reads in the pass the slot that the setter of its render before writes: the
\* state it reads is the value in that slot, and it renders that value.
C11_SetterWritesSlotRead ==
  [][IsPass =>
       \A i \in 1..Len(Kids(root)) : \A j \in Continuation(Kids(root)[i]) :
         LET c == Kids(root)[i]
             cn == Kids(root')[j]
         IN (WithPath(Kids(root), c.path) = {i} /\ WithPath(Kids(root'), cn.path) = {j}) =>
              \A s \in {s \in setters : s.path = c.path /\ s.type = c.node.type} :
                LET reads == SelectSeq(Events(log', "useState"),
                                       LAMBDA e : e.path = cn.path /\ e.cursor = s.cursor)
                IN /\ Len(reads) = 1
                   /\ reads[1].arr = s.arr
                   /\ reads[1].state = ArrGet(arrays[s.arr], s.cursor)
                   /\ Rendered(cn) = String(ArrGet(arrays[s.arr], s.cursor))]_vars

----------------------------------------------------------------------------
(* C12: effects run after the pass *)

\* the step ran a render: a pass of the driver, or the first render of setup
RanRender == IsPass \/ (IsSetup /\ ~IsRejectedSetup)

\* the runs the pass of the step queued for the flush
QueuedRuns == IF mq' # <<>> /\ mq'[Len(mq')].task = "flush"
              THEN mq'[Len(mq')].effectsToRun ELSE <<>>

\* C12: a step that runs a render invokes no effect body, and it invokes no
\* cleanup that a hook it scheduled carries forward for the flush; effect
\* bodies are invoked by the flush callback only.
C12_EffectsAfterPass ==
  [][/\ RanRender =>
          /\ Where(log', LAMBDA e : e.ev = "effect") = {}
          /\ \A k \in 1..Len(QueuedRuns) :
               LET hook == HookAt(hooks', arrays', QueuedRuns[k].path, QueuedRuns[k].cursor)
               IN (IsEffectHook(hook) /\ hook.cleanup # NoCleanup) =>
                    Where(log', LAMBDA e : e.ev = "cleanup"
                                           /\ e.id = names'.cl[hook.cleanup]) = {}
     /\ (log' # log /\ Where(log', LAMBDA e : e.ev = "effect") # {}) => IsFlush]_vars

----------------------------------------------------------------------------
(* Functions called on their own, on arguments drawn from bounded sets *)

MaxSiblings == 3

\* declared keys: none, a key, and a key that ends in "-<number>"
SiblingKeys == {NoKey, "a", "a-1"}

SiblingTypes == {"X", "div"}

SiblingNodes == {VNode(t, k, NoAttrs, <<>>) : t \in SiblingTypes, k \in SiblingKeys}

InitPaths ==
  /\ variant = "migrating"
  /\ scn = "createChildPath"
  /\ Unmounted
  /\ \E children \in SeqsUpTo(SiblingNodes, MaxSiblings) :
       applied = [op |-> "createChildPath", children |-> children, paths |-> <<>>]

\* the mount of a parent gives its next child a path: children.map((child,
\* index) => reconcile(.., createChildPath(path, child.key, index, child.type,
\* children)))
PathChild ==
  /\ applied.op = "createChildPath"
  /\ Len(applied.paths) < Len(applied.children)
  /\ \E index \in {Len(applied.paths)} :
       \E child \in {applied.children[index + 1]} :
         applied' = [applied EXCEPT !.paths =
                  Append(@, createChildPath("0", KeyOf(child), index, TypeOf(child),
                                            Siblings(applied.children)))]
  /\ UNCHANGED appVars

NextPaths == PathChild

SpecPaths == InitPaths /\ [][NextPaths]_vars

----------------------------------------------------------------------------
(* C13: sibling paths are distinct *)

\* C13: the children of one parent at one render get pairwise different paths
\* from createChildPath, whatever keys they declare: none, repeated ones, or
\* keys that end in "-<number>".
C13_SiblingPathsDistinct ==
  applied.op = "createChildPath" =>
    \A i, j \in 1..Len(applied.paths) : i # j => applied.paths[i] # applied.paths[j]

----------------------------------------------------------------------------
(* C14: normalizeNode *)

MaxArr == 2

MaxNum == 1

MaxInner == 1

BlankStrings == {"", " ", "\n", " \n "}

OtherStrings == {"a", " a", "0"}

\* what a child of an element can be, arrays apart
Scalars ==
  {VNull, Undefined, VTrue, VFalse}
  \cup {StrV(s) : s \in BlankStrings \cup OtherStrings}
  \cup {IntV(n) : n \in (0 - MaxNum)..MaxNum}
  \cup {VNode("div", NoKey, NoAttrs, <<>>)}

InnerArrays ==
  {ArrV(e) : e \in SeqsUpTo({VNull, StrV(" "), StrV("a"), IntV(0)}, MaxInner)}

RawNodes ==
  Scalars \cup InnerArrays
  \cup {ArrV(e) : e \in SeqsUpTo(Scalars \cup InnerArrays, MaxArr)}

IsArr(v) == "arr" \in DOMAIN v

InitNormalize ==
  /\ variant = "migrating"
  /\ scn = "normalizeNode"
  /\ Unmounted
  /\ \E node \in RawNodes :
       applied = [op |-> "normalizeNode", node |-> node, result |-> Undefined,
                  done |-> FALSE]

Normalize ==
  /\ applied.op = "normalizeNode"
  /\ ~applied.done
  /\ applied' = [applied EXCEPT !.result = normalizeNode(applied.node), !.done = TRUE]
  /\ UNCHANGED appVars

NextNormalize == Normalize

SpecNormalize == InitNormalize /\ [][NextNormalize]_vars

TextNode(s) ==
  [type |-> TEXT_ELEMENT, key |-> NoKey,
   props |-> [attrs |-> NoAttrs, children |-> <<>>, nodeValue |-> s]]

\* C14: normalizeNode returns null for null, undefined, true, false and every
\* string of white space only; a text node with nodeValue String(n) for a
\* number n; a text node with the string itself for every other string; and
\* for an array a fragment whose children are the normalized elements that
\* are not null, in order.
C14_NormalizeNode ==
  (applied.op = "normalizeNode" /\ applied.done) =>
    LET node == applied.node
        result == applied.result
    IN /\ node \in {VNull, Undefined, VTrue, VFalse} => result = VNull
       /\ (IsStr(node) /\ node.str \in BlankStrings) => result = VNull
       /\ IsInt(node) => result = TextNode(ToString(node.int))
       /\ (IsStr(node) /\ node.str \notin BlankStrings) => result = TextNode(node.str)
       /\ IsArr(node) =>
            /\ result.type = Fragment
            /\ result.key = NoKey
            /\ result.props.children =
                 SelectSeq([i \in 1..Len(node.arr) |-> normalizeNode(node.arr[i])],
                           LAMBDA n : n # VNull)

\* an array with a blank string and an inner array was normalized
C14_Witness ==
  /\ applied.op = "normalizeNode"
  /\ applied.done
  /\ applied.node = ArrV(<<StrV(" "), ArrV(<<IntV(0)>>)>>)
  /\ applied.result.props.children =
       <<VNode(Fragment, NoKey, NoAttrs, <<TextNode("0")>>)>>

----------------------------------------------------------------------------
(* C15: hook migration *)

\* the hook calls of the component at a path
HookCalls(l, path) ==
  SelectSeq(l, LAMBDA e : e.ev \in {"useState", "useEffect"} /\ e.path = path)

\* the components of the pass that stay mounted, as pairs <<before, after>>,
\* each at a path of its own
Continued ==
  {p \in (1..Len(Kids(root))) \X (1..Len(Kids(root'))) :
     /\ p[2] \in Continuation(Kids(root)[p[1]])
     /\ WithPath(Kids(root), Kids(root)[p[1]].path) = {p[1]}
     /\ WithPath(Kids(root'), Kids(root')[p[2]].path) = {p[2]}
     /\ MapHas(hooks.state, Kids(root)[p[1]].path)}

Migrated == {p \in Continued : Kids(root')[p[2]].path # Kids(root)[p[1]].path}

\* C15: with hook migration, a component that stays mounted at another path
\* reads in the pass the records it owned before the pass, and in a pass that
\* migrates, every component that stays mounted still owns its records after
\* the pass.
C15_MigrationKeepsRecords ==
  [][(IsPass /\ variant = "migrating") =>
       /\ \A p \in Migrated :
            LET calls == HookCalls(log', Kids(root')[p[2]].path)
            IN /\ calls # <<>>
               /\ \A n \in 1..Len(calls) :
                    calls[n].arr = MapGet(hooks.state, Kids(root)[p[1]].path)
       /\ Migrated # {} =>
            \A p \in Continued :
              /\ MapHas(hooks'.state, Kids(root')[p[2]].path)
              /\ names'.arr[MapGet(hooks'.state, Kids(root')[p[2]].path)] =
                   MapGet(hooks.state, Kids(root)[p[1]].path)]_vars

----------------------------------------------------------------------------
(* C16: a component that now renders nothing *)

EmptyReturns == {StrV("null"), StrV("undefined"), StrV("false")}

\* the pass re-runs a mounted Gate that rendered an X, and Gate returns null,
\* undefined or false: reconcile is called with the X instance and that value
GateReturnsEmpty ==
  /\ IsPass
  /\ Len(Kids(root)) = 1
  /\ Len(Kids(root')) = 1
  /\ Kids(root)[1].node.type = "Gate"
  /\ Kids(root)[1].children # <<>>
  /\ \E n \in 1..Len(log') :
       /\ log'[n].ev = "useState"
       /\ log'[n].path = Kids(root)[1].path
       /\ log'[n].state \in EmptyReturns

\* C16: when reconcile is called with an old instance and a node that is null,
\* undefined or a boolean, the cleanups of the old instance are run, its host
\* nodes leave the host tree, and the result is null.
C16_EmptyNodeUnmounts ==
  [][GateReturnsEmpty =>
       LET old == Kids(root)[1].children[1]
           hook == HookAt(hooks, arrays, old.path, 1)
       IN /\ (IsEffectHook(hook) /\ hook.cleanup # NoCleanup) =>
               Cardinality(Where(log', LAMBDA e : e.ev = "cleanup"
                                                  /\ e.id = hook.cleanup)) = 1
          /\ \A d \in SeqToSet(getDomNodes(old)) : d \notin SeqToSet(names'.dom)
          /\ Kids(root')[1].children = <<>>]_vars

----------------------------------------------------------------------------
(* C17: replace *)

\* the paths of the components of an instance and below it
RECURSIVE ComponentPaths(_)
ComponentPaths(instance) ==
  IF instance = NoInst THEN {}
  ELSE (IF instance.kind = NodeCOMPONENT THEN {instance.path} ELSE {})
       \cup UNION {ComponentPaths(instance.children[i]) : i \in 1..Len(instance.children)}

\* reconcile was called in the pass with an old instance and a node of another
\* type or key: a child of App, matched by its key with the last old child
\* that declares the key, or the child of a Gate that stays mounted
KeyedReplaced ==
  {r \in {[old |-> Kids(root)[oldChildByKey(Kids(root), Kids(root')[j].key)],
           new |-> Kids(root')[j]] :
            j \in {j \in 1..Len(Kids(root')) :
                     oldChildByKey(Kids(root), Kids(root')[j].key) # 0}} :
     r.old.node.type # r.new.node.type}

GateChildReplaced ==
  IF Len(Kids(root)) = 1 /\ Len(Kids(root')) = 1
     /\ Kids(root)[1].node.type = "Gate" /\ Kids(root')[1].node.type = "Gate"
     /\ Kids(root)[1].children # <<>> /\ Kids(root')[1].children # <<>>
     /\ \/ Kids(root)[1].children[1].node.type # Kids(root')[1].children[1].node.type
        \/ Kids(root)[1].children[1].key # Kids(root')[1].children[1].key
  THEN {[old |-> Kids(root)[1].children[1], new |-> Kids(root')[1].children[1]]}
  ELSE {}

Replaced == IF IsPass THEN KeyedReplaced \cup GateChildReplaced ELSE {}

\* where in the log the function of a mounted component is called
Calls(l, c) ==
  Where(l, LAMBDA e : e.ev = "call" /\ e.path = c.path /\ e.type = c.node.type)

\* C17: when reconcile replaces an old instance by a node of another type or
\* key, the stored cleanups of the old instance are invoked and its host nodes
\* are removed before the function of the new component is called, and every
\* component of the new instance starts from initial hook state: each state
\* hook finds an empty slot, runs its initializer and reads the initial value
\* (0; Gate: "show"), and each effect hook runs and carries no cleanup.
C17_ReplaceMountsFresh ==
  [][\A r \in Replaced :
       LET called == Min(Calls(log', r.new))
       IN /\ Calls(log', r.new) # {}
          /\ \A p \in ComponentPaths(r.old) :
               LET hook == HookAt(hooks, arrays, p, 1)
               IN (IsEffectHook(hook) /\ hook.cleanup # NoCleanup) =>
                    \E n \in 1..(called - 1) :
                      log'[n].ev = "cleanup" /\ log'[n].id = hook.cleanup
          /\ \A d \in SeqToSet(getDomNodes(r.old)) :
               \E n \in 1..(called - 1) :
                 log'[n].ev = "dom" /\ log'[n].op = "removeChild" /\ log'[n].node = d
          /\ \A c \in {r.new} \cup SeqToSet(r.new.children) :
               c.kind = NodeCOMPONENT =>
                 /\ Calls(log', c) # {}
                 /\ \A n \in (Max(Calls(log', c)) + 1)..Len(log') :
                      (log'[n].ev \in {"useState", "useEffect"} /\ log'[n].path = c.path) =>
                        /\ log'[n].ev = "useState" =>
                             /\ log'[n - 1].ev = "init"
                             /\ log'[n - 1].path = c.path
                             /\ log'[n - 1].cursor = log'[n].cursor
                             /\ log'[n].state \in {IntV(0), StrV("show")}
                        /\ log'[n].ev = "useEffect" =>
                             /\ log'[n].shouldRun
                             /\ LET hook == HookAt(hooks', arrays', c.path, log'[n].cursor)
                                IN IsEffectHook(hook) => hook.cleanup = NoCleanup
                 /\ \E n \in (Max(Calls(log', c)) + 1)..Len(log') :
                      log'[n].ev = "useState" /\ log'[n].path = c.path]_vars

----------------------------------------------------------------------------
(* C18: a key matches once *)

\* the children after the pass that continue an old child: they hold its host node
ContinuedBy(c) ==
  {j \in 1..Len(Kids(root')) :
     /\ getFirstDom(Kids(root')[j]) # NoDom
     /\ names'.dom[getFirstDom(Kids(root')[j])] = getFirstDom(c)}

\* C18: in a pass over keyed children, every old child continues as at most
\* one new child, also when a key is declared twice, and no two children after
\* the pass share a host node.
C18_KeyMatchesOnce ==
  [][IsPass =>
       /\ \A i \in 1..Len(Kids(root)) :
            (Kids(root)[i].key # NoKey /\ getFirstDom(Kids(root)[i]) # NoDom) =>
              Cardinality(ContinuedBy(Kids(root)[i])) <= 1
       /\ \A i, j \in 1..Len(Kids(root')) :
            (i # j /\ Kids(root')[i].key # NoKey) =>
              SeqToSet(getDomNodes(Kids(root')[i]))
                \cap SeqToSet(getDomNodes(Kids(root')[j])) = {}]_vars

----------------------------------------------------------------------------
(* C19: the host tree mirrors the instance tree *)

\* the HOST instances of an instance and below it
RECURSIVE HostInstances(_)
HostInstances(instance) ==
  IF instance = NoInst THEN {}
  ELSE (IF instance.kind = NodeHOST THEN {instance} ELSE {})
       \cup UNION {HostInstances(instance.children[i]) : i \in 1..Len(instance.children)}

\* C19: after every render pass the children of the root container are the
\* host nodes of the root instance, in order, and the children of the host
\* node of every HOST instance are the host nodes of its children, in order.
C19_HostTreeMirrorsInstances ==
  [][(RanRender /\ Mounted(root')) =>
       /\ dom'[root'.container].kids = getDomNodes(root'.instance)
       /\ \A h \in HostInstances(root'.instance) :
            dom'[h.dom].kids = getDomNodesOfChildren(h.children)]_vars

----------------------------------------------------------------------------
(* C20: the life of a stored cleanup *)

\* a pass that schedules the effect of a component that stays mounted does not
\* invoke the cleanup the effect's last run stored
PassKeepsStoredCleanup ==
  IsPass =>
    \A p \in Continued :
      LET c == Kids(root)[p[1]]
          cn == Kids(root')[p[2]]
      IN \A n \in Where(log', LAMBDA e : e.ev = "useEffect" /\ e.path = cn.path
                                         /\ e.shouldRun) :
           LET prev == HookAt(hooks, arrays, c.path, log'[n].cursor)
           IN (IsEffectHook(prev) /\ prev.cleanup # NoCleanup) =>
                Where(log', LAMBDA e : e.ev = "cleanup" /\ e.id = prev.cleanup) = {}

\* the flush invokes the stored cleanup of each queued effect once, immediately
\* before the effect body, and then the slot stores what the body returned
FlushReplacesCleanup ==
  IsFlush =>
    \A k \in 1..Len(Head(mq).effectsToRun) :
      LET e == Head(mq).effectsToRun[k]
          hook == HookAt(hooks, arrays, e.path, e.cursor)
          now == HookAt(hooks', arrays', e.path, e.cursor)
          bodies == Where(log', LAMBDA x : x.ev = "effect" /\ x.path = e.path
                                            /\ x.cursor = e.cursor)
          invoked == Where(log', LAMBDA x : x.ev = "cleanup" /\ x.id = hook.cleanup)
      IN IsEffectHook(hook) =>
           /\ bodies # {}
           /\ hook.cleanup # NoCleanup =>
                /\ Cardinality(invoked) = 1
                /\ \A a \in invoked : a + 1 \in bodies
           /\ IsEffectHook(now)
           /\ IF log'[Max(bodies)].cleanup = NoCleanup THEN now.cleanup = NoCleanup
              ELSE /\ now.cleanup # NoCleanup
                   /\ names'.cl[now.cleanup] = log'[Max(bodies)].cleanup

\* a cleanup is invoked at most once in a step, and a cleanup that was invoked
\* is stored in no record after the step
InvokedCleanupIsDropped ==
  \A n \in Where(log', LAMBDA e : e.ev = "cleanup") :
    /\ Where(log', LAMBDA e : e.ev = "cleanup" /\ e.id = log'[n].id) = {n}
    /\ \A K \in CleanupsInStore(hooks', arrays') : names'.cl[K] # log'[n].id

\* C20: the cleanup an effect's last run stored is not invoked in the pass that
\* schedules the effect again; the flush invokes it immediately before the new
\* effect body and then stores what the body returned, or no cleanup; and a
\* cleanup that was invoked stays in no record, so it is not invoked again.
C20_CleanupLife ==
  [][PassKeepsStoredCleanup /\ FlushReplacesCleanup
     /\ (log' # log => InvokedCleanupIsDropped)]_vars

----------------------------------------------------------------------------
(* Setter calls made while the queued effects run *)

\* the setter calls an effect body or a cleanup made in the step
NestedSets(l) == SelectSeq(l, LAMBDA e : e.ev = "setState" /\ "from" \in DOMAIN e)

\* the call stores a value other than the one the slot held before the step
ChangesStored(a, e) == ~ObjectIs(ArrGet(a[e.s.arr], e.s.cursor), e.nextValue.val)

\* the queued effects whose record is still an effect hook
Runnable(h, a, effectsToRun) ==
  SelectSeq(effectsToRun, LAMBDA e :
    MapHas(h.state, e.path) /\ IsEffectHook(HookAt(h, a, e.path, e.cursor)))

\* a flush in which an effect body or a cleanup changed a stored state value
FlushSetsState ==
  /\ IsFlush
  /\ \E n \in 1..Len(NestedSets(log')) : ChangesStored(arrays, NestedSets(log')[n])

\* C21: a setter call made from an effect body or a cleanup during the effect
\* flush starts no render inside the flush (no component is called, no host
\* operation happens, the pass count stays), every queued effect of the flush
\* still runs its body, in the queued order, and the flush leaves exactly one
\* render queued, which the next render pass consumes without queuing another
C21_SetterInFlushDefersOneRender ==
  [][/\ FlushSetsState =>
          /\ ~IsPass
          /\ Events(log', "call") = <<>>
          /\ Events(log', "dom") = <<>>
          /\ LET ran == Events(log', "effect")
                 due == Runnable(hooks, arrays, Head(mq).effectsToRun)
             IN /\ Len(ran) = Len(due)
                /\ \A n \in 1..Len(due) :
                     ran[n].path = due[n].path /\ ran[n].cursor = due[n].cursor
          /\ Tasks(mq', "render") = 1
          /\ Head(mq').task = "render"
          /\ scheduled'
     /\ (IsPass /\ ~IsSetup /\ Tasks(mq, "render") = 1) =>
          /\ Tasks(mq', "render") = 0
          /\ ~scheduled']_vars

\* a flush ran two effects, the first one's setter call queued the render, and the
\* second effect ran after that call
C21_Witness ==
  /\ Tasks(mq, "render") = 1
  /\ scheduled
  /\ \E n, m \in 1..Len(log) :
       /\ n < m
       /\ log[n].ev = "setState" /\ "from" \in DOMAIN log[n]
       /\ log[m].ev = "effect"
       /\ Len(Events(log, "effect")) = 2
       /\ Len(NestedSets(log)) >= 2

----------------------------------------------------------------------------
(* From a setter call to the render pass and back to idle *)

\* The event loop runs a queued microtask: the step at the head of the queue is
\* taken. RenderTick and FlushTick are the steps RunRender and RunFlush take, told
\* by the counter of the turn they raise; each is possible exactly when its task
\* is at the head of the queue.
RenderTick ==
  /\ mq # <<>>
  /\ Head(mq).task = "render"
  /\ \E d \in BOOLEAN : turn' = [turn EXCEPT !.passes = @ + 1, !.done = d]

FlushTick ==
  /\ mq # <<>>
  /\ Head(mq).task = "flush"
  /\ \E d \in BOOLEAN : turn' = [turn EXCEPT !.flushes = @ + 1, !.done = d]

InitLazyLive == InitApp("lazy")

SpecLazyLive ==
  InitLazyLive /\ [][Next]_vars /\ WF_turn(RenderTick) /\ WF_turn(FlushTick)

InitUnkeyedLive == InitApp("unkeyed")

SpecUnkeyedLive ==
  InitUnkeyedLive /\ [][Next]_vars /\ WF_turn(RenderTick) /\ WF_turn(FlushTick)

\* the driver is idle: nothing is queued and no render is scheduled
Idle == mq = <<>> /\ ~scheduled

\* the component the setter belongs to holds its records in the list the setter
\* writes, and the pass of the step calls it at its path
CalledInPass(s) ==
  /\ MapHas(hooks.state, s.path)
  /\ MapGet(hooks.state, s.path) = s.arr
  /\ \E n \in 1..Len(log') :
       log'[n].ev = "call" /\ log'[n].type = s.type /\ log'[n].path = s.path

\* what the pass of the step reads from the slot of the setter
ReadsOf(s) ==
  SelectSeq(Events(log', "useState"), LAMBDA e : e.path = s.path /\ e.cursor = s.cursor)

\* C22: a setter call that changes a stored value leaves a render scheduled; a
\* scheduled render is eventually followed by a render pass, after which the
\* driver becomes idle with no render scheduled; and in the pass that follows
\* setter calls that changed state, a component of a changed type that is called
\* at its path reads the value its slot holds
C22_SetterLeadsToPassAndIdle ==
  /\ [][(IsSetState /\ arrays' # arrays) => (scheduled' /\ Tasks(mq', "render") = 1)]_vars
  /\ [][(IsPass /\ turn.sets >= 1) =>
          \A s \in setters :
            (s.type \in turn.by /\ CalledInPass(s)) =>
               /\ Len(ReadsOf(s)) = 1
               /\ ReadsOf(s)[1].state = ArrGet(arrays[s.arr], s.cursor)]_vars
  /\ (scheduled ~> Idle)

----------------------------------------------------------------------------
(* The hook cursor when a component function starts *)

\* the hook calls logged after event n at the path of that event
HookCallsAfter(l, n) ==
  {m \in n + 1..Len(l) : l[m].ev \in {"useState", "useEffect"} /\ l[m].path = l[n].path}

\* C23: in every render pass the first hook call a component function makes
\* after it starts uses slot 0 of the record list of its path: the cursor of the
\* path is 0 each time a component function starts executing
C23_CursorZeroAtStart ==
  \A n \in Where(log, LAMBDA e : e.ev = "call") :
    HookCallsAfter(log, n) # {} => log[Min(HookCallsAfter(log, n))].cursor = 0

----------------------------------------------------------------------------
(* updateDomProps on one host node *)

MaxFn == 2

\* the prop is not in the props object
Absent == [absent |-> TRUE]

\* a handler: a function, known by its identity
FnV(i) == [fn |-> i]

\* a style object: its entries and its identity
StyleV(entries, ref) == [style |-> entries, ref |-> ref]

\* what each prop of the props object of a host node may be
PropChoices ==
  [onClick : {Absent, Undefined} \cup {FnV(i) : i \in 1..MaxFn},
   onInput : {Absent, FnV(1)},
   className : {Absent, StrV("a")},
   style : {Absent, StyleV(<<[k |-> "color", v |-> StrV("red")]>>, 1), StyleV(<<>>, 2)},
   id : {Absent, StrV("x")},
   role : {Absent, StrV("r")}]

\* the props object: its keys in the order they were written
PropsOf(c) ==
  SelectSeq(<<[k |-> "onClick", v |-> c.onClick], [k |-> "onInput", v |-> c.onInput],
              [k |-> "className", v |-> c.className], [k |-> "style", v |-> c.style],
              [k |-> "id", v |-> c.id], [k |-> "role", v |-> c.role]>>,
            LAMBDA e : e.v # Absent)

PropSets == {PropsOf(c) : c \in PropChoices}

\* the host tree that holds one fresh element
OneNode(n) == [dom |-> <<n>>, log |-> <<>>]

\* document.createElement(tag) followed by setDomProps(dom, props)
FreshWith(props) == setDomProps(OneNode(HostNode("element", "div", "")), 1, props).dom[1]

\* the event props the call registered or removed a listener for
KeysWritten(l) == {l[i].key : i \in 1..Len(l)} \cap EventKeys

InitProps ==
  /\ variant = "migrating"
  /\ scn = "updateDomProps"
  /\ Unmounted
  /\ \E props \in PropSets :
       applied = [op |-> "updateDomProps", node |-> FreshWith(props), props |-> props,
                  calls |-> 0, written |-> {}, kept |-> {}]

\* the update of a host instance: updateDomProps(dom, instance.node.props,
\* node.props); `calls` is 2 after the second call and later, `kept` holds the
\* event keys whose handler is the one of the props before
UpdateProps(nextProps) ==
  /\ applied.op = "updateDomProps"
  /\ \E st \in {updateDomProps(OneNode(applied.node), 1, applied.props, nextProps)} :
       applied' = [op |-> "updateDomProps", node |-> st.dom[1], props |-> nextProps,
                   calls |-> Min({applied.calls + 1, 2}),
                   written |-> KeysWritten(st.log),
                   kept |-> {k \in EventKeys :
                               /\ MapHas(nextProps, k) /\ MapHas(applied.props, k)
                               /\ MapGet(nextProps, k) = MapGet(applied.props, k)}]
  /\ UNCHANGED appVars

NextProps == \E nextProps \in PropSets : UpdateProps(nextProps)

SpecProps == InitProps /\ [][NextProps]_vars

\* the listeners registered on the node for the event of a key
ListenersFor(n, key) ==
  SelectSeq(n.listeners, LAMBDA l : l.type = eventTypeOf(key))

\* the listeners the props ask for: the handler of the key, if it is a function
HandlersIn(props, key) ==
  IF MapHas(props, key) /\ "fn" \in DOMAIN MapGet(props, key)
  THEN <<[type |-> eventTypeOf(key), fn |-> MapGet(props, key)]>> ELSE <<>>

\* C24: after any sequence of updateDomProps calls on a host node, the
\* listeners registered for the event of every event prop are exactly the
\* handler of the latest props, or none when the latest props have no handler
\* under the key; and the last call made no write for an event prop whose handler
\* is the one of the props before
C24_ListenersFollowProps ==
  applied.op = "updateDomProps" =>
    \A key \in EventKeys :
      /\ ListenersFor(applied.node, key) = HandlersIn(applied.props, key)
      /\ key \in applied.kept => key \notin applied.written

\* after two calls or more a handler was replaced by another in the last call
\* while the handler of the other event stayed
C24_Witness ==
  /\ applied.op = "updateDomProps"
  /\ applied.calls = 2
  /\ applied.kept = {"onInput"}
  /\ applied.written = {"onClick"}
  /\ HandlersIn(applied.props, "onClick") = <<[type |-> "click", fn |-> FnV(2)]>>

----------------------------------------------------------------------------
(* updateDomProps against setDomProps on a new element *)

\* what can be observed of the props of an element: its class, the entries of
\* its style, its attributes, its intrinsic properties ("" when never written)
\* and the listeners of each event
Observed(n) ==
  [className |-> n.className,
   style |-> {<<n.style[i].k, n.style[i].v>> : i \in 1..Len(n.style)},
   attrs |-> {<<n.attrs[i].k, n.attrs[i].v>> : i \in 1..Len(n.attrs)},
   props |-> [k \in {"id", "title"} |->
                IF MapHas(n.props, k) THEN MapGet(n.props, k) ELSE StrV("")],
   listeners |-> [k \in EventKeys |-> ListenersFor(n, k)]]

\* C28: after setDomProps(dom, prev) on a new element and one call
\* updateDomProps(dom, prev, next), the element shows the same class, style
\* entries, attributes, intrinsic properties and listeners as a new element of
\* the tag after setDomProps(dom, next)
C28_UpdateEqualsFreshSet ==
  (applied.op = "updateDomProps" /\ applied.calls = 1) =>
    Observed(applied.node) = Observed(FreshWith(applied.props))

----------------------------------------------------------------------------
(* A new component at the positional path of an unmatched old one *)

\* the indexes at which the pass of the step replaces an unkeyed component by an
\* unkeyed component of another type at the same path, no other child of the
\* pass sharing the path
SwappedInPlace ==
  {i \in 1..Min({Len(Kids(root)), Len(Kids(root'))}) :
     /\ Kids(root)[i].kind = NodeCOMPONENT /\ Kids(root')[i].kind = NodeCOMPONENT
     /\ Kids(root)[i].key = NoKey /\ Kids(root')[i].key = NoKey
     /\ Kids(root)[i].node.type # Kids(root')[i].node.type
     /\ Kids(root)[i].path = Kids(root')[i].path
     /\ WithPath(Kids(root), Kids(root)[i].path) = {i}
     /\ WithPath(Kids(root'), Kids(root')[i].path) = {i}}

\* C25: when a pass mounts an unkeyed component Y at the index and path of an
\* unmatched unkeyed old component of another type, Y reads none of the old
\* component's records: its state hook runs its initializer and reads the initial
\* value 0, and at the end of the pass the store holds the records of Y at the
\* path, the state 0 in slot 0 and Y's effect in slot 1
C25_FreshMountReadsOwnRecords ==
  [][IsPass =>
       \A i \in SwappedInPlace :
         LET cn == Kids(root')[i]
             reads == SelectSeq(Events(log', "useState"),
                                LAMBDA e : e.path = cn.path /\ e.cursor = 0)
         IN /\ Initialised(log', cn.path) = 1
            /\ Len(reads) = 1
            /\ reads[1].state = IntV(0)
            /\ MapHas(hooks'.state, cn.path)
            /\ StateAt(hooks', arrays', cn.path) = IntV(0)
            /\ IsEffectHook(HookAt(hooks', arrays', cn.path, 1))
            /\ HookAt(hooks', arrays', cn.path, 1).effect.by = cn.node.type]_vars

----------------------------------------------------------------------------
(* The stack of the components being rendered *)

\* the components of an instance and below it: their function and their path
RECURSIVE ComponentsOf(_)
ComponentsOf(instance) ==
  IF instance = NoInst THEN {}
  ELSE (IF instance.kind = NodeCOMPONENT
        THEN {[type |-> instance.node.type, path |-> instance.path]} ELSE {})
       \cup UNION {ComponentsOf(instance.children[i]) : i \in 1..Len(instance.children)}

\* the call of a component function that was the last to start before event n
LastCall(l, n) == Max({m \in 1..n : l[m].ev = "call"})

\* the step raised an exception
Threw(l) == \E n \in 1..Len(l) : l[n].ev = "throw"

\* C29: the stack of active components is empty before and after every render
\* pass, also after a pass in which a component function threw; during the pass
\* the top of the stack is the path of the component function that is executing:
\* every hook call reads the path of the component function that started last,
\* and, when nothing was thrown, every function that was started is a component of
\* the rendered tree at the path it was started with
C29_ComponentStackBalanced ==
  /\ hooks.componentStack = <<>>
  /\ \A n \in 1..Len(log) :
       log[n].ev \in {"useState", "useEffect"} =>
         /\ \E m \in 1..n : log[m].ev = "call"
         /\ log[n].path = log[LastCall(log, n)].path
  /\ ~Threw(log) =>
       \A n \in 1..Len(log) :
         log[n].ev = "call" =>
           [type |-> log[n].type, path |-> log[n].path] \in ComponentsOf(root.instance)

\* a component function threw in a pass while it and App were on the stack, and
\* the stack is empty after the pass
C29_Witness ==
  /\ hooks.componentStack = <<>>
  /\ turn.passes >= 1
  /\ Len(log) >= 3
  /\ log[Len(log)] = [ev |-> "throw", what |-> "Thrower"]
  /\ log[1].ev = "call" /\ log[1].type = "App"
  /\ log[LastCall(log, Len(log))].type = "Thrower"

----------------------------------------------------------------------------
(* shallowEquals and deepEquals on values *)

MaxDeps == 2

NaN == [nan |-> TRUE]

\* an array and a plain object, each with its identity
ArrayV(items, ref) == [items |-> items, ref |-> ref]

ObjectV(fields, ref) == [fields |-> fields, ref |-> ref]

Primitives == {IntV(0), IntV(1), NaN, VNull, Undefined}

Elements == {IntV(0), Undefined}

\* arrays and objects of primitives; an object may have the key "0" of an array
FlatObjects ==
  {ArrayV(s, r) : s \in SeqsUpTo(Elements, MaxDeps), r \in 1..2}
  \cup {ObjectV(f, r) :
          f \in {<<>>} \cup {<<[k |-> k, v |-> v]>> : k \in {"0", "x"}, v \in Elements}
                \cup {<<[k |-> "0", v |-> v], [k |-> "x", v |-> w]>> : v, w \in Elements},
          r \in 1..2}

\* arrays and objects that hold one array or object
NestedObjects ==
  {ArrayV(<<o>>, r) : o \in FlatObjects, r \in 3..4}
  \cup {ObjectV(<<[k |-> "x", v |-> o]>>, r) : o \in FlatObjects, r \in 3..4}

EqualsValues == Primitives \cup FlatObjects \cup NestedObjects

\* the arrays and objects a value is made of
ObjectsIn(v) ==
  IF ~IsObject(v) THEN {}
  ELSE {v} \cup {o \in {PropertyOf(v, key) : key \in ObjectKeys(v)} : IsObject(o)}

\* one identity is one object
OneObjectPerRef(a, b) ==
  \A o1, o2 \in ObjectsIn(a) \cup ObjectsIn(b) : o1.ref = o2.ref => o1 = o2

InitEquals ==
  /\ variant = "migrating"
  /\ scn = "equals"
  /\ Unmounted
  /\ \E a, b \in EqualsValues :
       /\ OneObjectPerRef(a, b)
       /\ applied = [op |-> "equals", a |-> a, b |-> b, done |-> FALSE]

\* the two functions are called with a and b, both ways round, and with a twice
Compare ==
  /\ applied.op = "equals"
  /\ ~applied.done
  /\ applied' = [applied EXCEPT !.done = TRUE] @@
                  [shallow |-> shallowEquals(applied.a, applied.b),
                   shallowBack |-> shallowEquals(applied.b, applied.a),
                   shallowSelf |-> shallowEquals(applied.a, applied.a),
                   deep |-> deepEquals(applied.a, applied.b),
                   deepBack |-> deepEquals(applied.b, applied.a),
                   deepSelf |-> deepEquals(applied.a, applied.a)]
  /\ UNCHANGED appVars

NextEquals == Compare

SpecEquals == InitEquals /\ [][NextEquals]_vars

IsArray(v) == "items" \in DOMAIN v

\* C30: shallowEquals and deepEquals are reflexive and symmetric on values made
\* of primitives, arrays and plain objects; shallowEquals(a, b) implies
\* deepEquals(a, b); and two arrays of different length are not shallow-equal
C30_EqualsLaws ==
  (applied.op = "equals" /\ applied.done) =>
    /\ applied.shallowSelf
    /\ applied.deepSelf
    /\ applied.shallow = applied.shallowBack
    /\ applied.deep = applied.deepBack
    /\ applied.shallow => applied.deep
    /\ (IsArray(applied.a) /\ IsArray(applied.b)
        /\ Len(applied.a.items) # Len(applied.b.items)) => ~applied.shallow

\* two arrays that are not the same object and hold the same nested object are
\* shallow-equal and deep-equal
C30_Witness ==
  /\ applied.op = "equals" /\ applied.done
  /\ IsArray(applied.a) /\ IsArray(applied.b)
  /\ applied.a.ref # applied.b.ref
  /\ Len(applied.a.items) = 1 /\ IsObject(applied.a.items[1])
  /\ applied.shallow /\ applied.deep

----------------------------------------------------------------------------
(* The paths of the mounted components *)

\* the paths of the components of an instance and below it, one entry for each
\* component instance
RECURSIVE PathsOfComponents(_)
RECURSIVE PathsOfComponentsIn(_)
PathsOfComponents(instance) ==
  IF instance = NoInst THEN <<>>
  ELSE (IF instance.kind = NodeCOMPONENT THEN <<instance.path>> ELSE <<>>)
       \o PathsOfComponentsIn(instance.children)

PathsOfComponentsIn(children) ==
  IF children = <<>> THEN <<>>
  ELSE PathsOfComponents(Head(children)) \o PathsOfComponentsIn(Tail(children))

\* C26: after every render pass no two component instances of the instance tree
\* have the same path
C26_ComponentPathsDistinct == NoRepeat(PathsOfComponents(root.instance))

----------------------------------------------------------------------------
(* C27: effects under interleaved setup calls, setter calls and callbacks *)

\* the slots whose effect body a step ran, as the log of the step records them
BodiesRunIn(l) ==
  {[path |-> l[i].path, cursor |-> l[i].cursor] : i \in {j \in 1..Len(l) : l[j].ev = "effect"}}

\* the step before this one was a flush callback too: no render pass ran in between
AfterFlush == log # <<>> /\ log[1].ev = "flush"

\* C27: an effect scheduled by a render pass has its body executed at most once
\* for that pass: of two flush callbacks that run one after the other, with no
\* render pass between them, the second runs the body of no effect the first ran,
\* so two setup calls of one synchronous turn run the second tree's mount effect once.
C27_EffectBodyOncePerPass ==
  [][IsFlush /\ AfterFlush => BodiesRunIn(log) \cap BodiesRunIn(log') = {}]_vars

============================================================================
